---- MODULE Spec2Model ----
(***************************************************************************)
(* The service state machine of the radicle node (radicle-node/src/        *)
(* service.rs): sessions, gossip log, routing table, tracking policy,      *)
(* subscription filter, fetch pipeline and outbox.                         *)
(*                                                                         *)
(* Every entry point of the service (command, connected, disconnected,     *)
(* received_message, fetched, ...) is an operator that maps a service      *)
(* state record to the service state record after the call.  The actions   *)
(* apply these operators to the local node; the network specification      *)
(* applies the same operators to every node of a small network.            *)
(***************************************************************************)
EXTENDS Integers, Sequences, FiniteSets, TLC

(***************************************************************************)
(* Identities and bounds                                                   *)
(***************************************************************************)

\* The local node and the node ids that occur as peers or announcers.
LocalId == "A"
NodeIds == {"A", "B", "C"}
Peers == NodeIds \ {LocalId}

\* Repository ids.
Rids == {"r1", "r2", "r3"}

Nil == "nil"

\* Number of user fetch responders the control channel creates in one run.
MaxResponders == 2

\* Number of clock advances of one run.
MaxTicks == 1

\* Number of clock advances of a run of reconnections.
MaxBackoffTicks == 12

\* Number of clock advances of a run of keep-alive pings.
MaxPingTicks == 4

\* Number of clock advances of a run of periodic tasks.
MaxWakeTicks == 4

\* The greatest fetch_concurrency limit a configuration sets.
MaxFetchConcurrency == 2

\* Number of nodes of the address book of a run of connection maintenance.
MaxKnownPeers == 9

\* Number of clock advances of a run of connection maintenance.
MaxMaintainTicks == 2

\* Number of times the clock advances in a run of the clock.
MaxClockTicks == 2

\* Service constants (durations in milliseconds).
TARGET_OUTBOUND_PEERS == 8
IDLE_INTERVAL == 30000
ANNOUNCE_INTERVAL == 3600000
SYNC_INTERVAL == 60000
PRUNE_INTERVAL == 1800000
STALE_CONNECTION_TIMEOUT == 120000
KEEP_ALIVE_DELTA == 60000
MAX_TIME_DELTA == 3600000
SUBSCRIBE_BACKLOG_DELTA == 3600000
\* Ping::MAX_PONG_ZEROES, in the units of the model's pong lengths.
MAX_PONG_ZEROES == 2
MIN_RECONNECTION_DELTA == 3000
MAX_RECONNECTION_DELTA == 3600000

\* Timestamp::MAX (u64::MAX in the code; the largest timestamp of the model).
TimestampMax == 2000000000

\* The clock of the service when it is constructed.
StartTime == 10000000

(***************************************************************************)
(* Helpers                                                                 *)
(***************************************************************************)

Drop(f, k) == [x \in DOMAIN f \ {k} |-> f[x]]

Put(f, k, v) == [x \in DOMAIN f \cup {k} |-> IF x = k THEN v ELSE f[x]]

Range(f) == {f[x] : x \in DOMAIN f}

SeqContains(q, x) == \E i \in 1..Len(q) : q[i] = x

RECURSIVE SetToSeq(_)
SetToSeq(S) ==
    IF S = {} THEN <<>>
    ELSE LET x == CHOOSE y \in S : TRUE IN <<x>> \o SetToSeq(S \ {x})

Max(a, b) == IF a >= b THEN a ELSE b

Min(a, b) == IF a <= b THEN a ELSE b

\* u64::saturating_sub, LocalTime - LocalTime
SaturatingSub(a, b) == IF a >= b THEN a - b ELSE 0

\* The first n elements of a sequence (Iterator::take).
Take(q, n) == SubSeq(q, 1, Min(n, Len(q)))

(***************************************************************************)
(* Session (service/session.rs; the state enum is radicle/src/node.rs)     *)
(***************************************************************************)

\* Session::outbound: a session for a peer we dial, in state Initial.
SessionOutbound(persistent) ==
    [link |-> "outbound", state |-> "Initial", persistent |-> persistent,
     attempts |-> 0, since |-> 0, retry_at |-> 0, ping |-> [state |-> "None", len |-> 0],
     fetching |-> {}, queue |-> <<>>, subscribe |-> <<>>, last_active |-> 0]

\* Session::inbound: a session for a peer that dialled us, already Connected.
SessionInbound(persistent, time) ==
    [link |-> "inbound", state |-> "Connected", persistent |-> persistent,
     attempts |-> 0, since |-> time, retry_at |-> 0, ping |-> [state |-> "None", len |-> 0],
     fetching |-> {}, queue |-> <<>>, subscribe |-> <<>>, last_active |-> time]

IsConnected(sess) == sess.state = "Connected"

IsConnecting(sess) == sess.state = "Attempted"

IsDisconnected(sess) == sess.state = "Disconnected"

\* Initial --connect--> Attempted(addr)
ToAttempted(sess) ==
    [sess EXCEPT !.state = "Attempted", !.attempts = @ + 1]

\* Attempted --on-connected--> Connected{since, ping, fetching}
ToConnected(sess, since) ==
    [sess EXCEPT !.state = "Connected", !.attempts = 0, !.since = since,
                 !.ping = [state |-> "None", len |-> 0], !.fetching = {}, !.last_active = since]

\* any --on-disconnect--> Disconnected{since, retry_at}
ToDisconnected(sess, since, retry_at) ==
    [sess EXCEPT !.state = "Disconnected", !.since = since,
                 !.retry_at = retry_at, !.ping = [state |-> "None", len |-> 0], !.fetching = {}]

\* Disconnected --wake-up--> Initial
ToInitial(sess) ==
    [sess EXCEPT !.state = "Initial", !.since = 0, !.retry_at = 0]

\* Session::fetching: the in-progress set; empty unless Connected.
SessionFetching(sess) == IF IsConnected(sess) THEN sess.fetching ELSE {}

\* Session::fetch: Ready takes a slot of the in-progress set, Queued appends
\* to the queue (an ordered set) when fetch_concurrency slots are taken.
SessionFetch(sess, rid, limit) ==
    IF ~IsConnected(sess) THEN [result |-> "NotConnected", session |-> sess]
    ELSE IF rid \in sess.fetching
         THEN [result |-> "AlreadyFetching", session |-> sess]
    ELSE IF Cardinality(sess.fetching) >= limit
         THEN [result |-> "Queued",
               session |-> IF SeqContains(sess.queue, rid) THEN sess
                           ELSE [sess EXCEPT !.queue = Append(@, rid)]]
    ELSE [result |-> "Ready",
          session |-> [sess EXCEPT !.fetching = @ \cup {rid}]]

\* Session::fetched: removes rid from the in-progress set and pops the next
\* queued repository, if any.
SessionFetched(sess, rid) ==
    LET s1 == IF IsConnected(sess)
              THEN [sess EXCEPT !.fetching = @ \ {rid}] ELSE sess
    IN IF s1.queue = <<>> THEN [dequeued |-> Nil, session |-> s1]
       ELSE [dequeued |-> Head(s1.queue),
             session |-> [s1 EXCEPT !.queue = Tail(@)]]

(***************************************************************************)
(* Tracking configuration (service/tracking.rs) and filter (filter.rs)     *)
(***************************************************************************)

\* tracking::Config::repo_policy: the row of the repository, or the default
\* policy of the node for a repository that has no row.
RepoPolicy(s, rid) ==
    IF rid \in DOMAIN s.tracking THEN s.tracking[rid]
    ELSE [policy |-> s.config.policy, scope |-> "All"]

\* tracking::Config::is_repo_tracked
IsRepoTracked(s, rid) == RepoPolicy(s, rid).policy = "Track"

\* tracking::Config::track_repo: upsert of the row; updated iff it changed.
TrackingTrackRepo(tracking, rid, scope) ==
    Put(tracking, rid, [policy |-> "Track", scope |-> scope])

\* tracking::Config::untrack_repo: removes the row.
TrackingUntrackRepo(tracking, rid) == Drop(tracking, rid)

\* The repository ids whose policy is track.
TrackedRids(tracking) == {r \in DOMAIN tracking : tracking[r].policy = "Track"}

\* tracking::Config::namespaces_for: All, Trusted(nodes), or the error
\* NoTrusted when the scope is Trusted and there is no trusted node.
NamespacesFor(s, rid) ==
    LET entry == RepoPolicy(s, rid) IN
    IF entry.scope = "All"
    THEN [ok |-> TRUE, namespaces |-> [kind |-> "All", nodes |-> {}]]
    ELSE IF s.trusted = {}
    THEN [ok |-> FALSE, namespaces |-> [kind |-> "NoTrusted", nodes |-> {}]]
    ELSE [ok |-> TRUE, namespaces |-> [kind |-> "Trusted", nodes |-> s.trusted]]

\* Filter::new / Filter::empty / Filter::insert / Filter::contains: a
\* set-membership structure over repository ids.
FilterNew(rids) == rids

FilterEmpty == {}

\* Filter::default: the filter that matches every repository.
FilterDefault == Rids

FilterInsert(filter, rid) == filter \cup {rid}

FilterContains(filter, rid) == rid \in filter

(***************************************************************************)
(* Outbox (service/io.rs)                                                  *)
(***************************************************************************)

IoConnect(nid) == [type |-> "Connect", nid |-> nid]

IoDisconnect(nid, reason) == [type |-> "Disconnect", nid |-> nid, reason |-> reason]

IoWrite(nid, msg) == [type |-> "Write", nid |-> nid, msg |-> msg]

IoFetch(nid, rid, namespaces) ==
    [type |-> "Fetch", nid |-> nid, rid |-> rid, namespaces |-> namespaces]

IoWakeup(delay) == [type |-> "Wakeup", delay |-> delay]

\* Outbox::write_all: one Write per message, in order.
RECURSIVE WriteAll(_, _, _)
WriteAll(outbox, nid, msgs) ==
    IF msgs = <<>> THEN outbox
    ELSE WriteAll(Append(outbox, IoWrite(nid, Head(msgs))), nid, Tail(msgs))

\* Outbox::broadcast: one Write per recipient session.
Broadcast(outbox, msg, nids) ==
    outbox \o [i \in 1..Cardinality(nids) |-> IoWrite(SetToSeq(nids)[i], msg)]

(***************************************************************************)
(* Routing table (node/routing.rs) and address book (node/address.rs)      *)
(***************************************************************************)

\* routing::Store::insert: upsert of the row (rid, seed); the stored time
\* only moves forward.
RoutingInsert(routing, rid, nid, time) ==
    IF <<rid, nid>> \notin DOMAIN routing
    THEN [result |-> "SeedAdded", routing |-> Put(routing, <<rid, nid>>, time)]
    ELSE IF time > routing[<<rid, nid>>]
    THEN [result |-> "TimeUpdated", routing |-> Put(routing, <<rid, nid>>, time)]
    ELSE [result |-> "NotUpdated", routing |-> routing]

\* routing::Store::get_resources: the repositories routed to a seed.
RoutingResources(routing, nid) == {k[1] : k \in {x \in DOMAIN routing : x[2] = nid}}

\* routing::Store::get: the seeds of a repository.
RoutingGet(routing, rid) == {k[2] : k \in {x \in DOMAIN routing : x[1] = rid}}

\* address::Store::insert: true iff the node is new or its timestamp advanced.
AddressInsert(addresses, nid, time) ==
    IF nid \notin DOMAIN addresses
    THEN [updated |-> TRUE,
          addresses |-> Put(addresses, nid, [timestamp |-> time, last_attempt |-> 0,
                                             last_success |-> 0])]
    ELSE IF time > addresses[nid].timestamp
    THEN [updated |-> TRUE,
          addresses |-> [addresses EXCEPT ![nid].timestamp = time]]
    ELSE [updated |-> FALSE, addresses |-> addresses]

\* address::Store::attempted: stamps the last attempt of a known address.
AddressAttempted(addresses, nid, time) ==
    IF nid \in DOMAIN addresses
    THEN [addresses EXCEPT ![nid].last_attempt = time] ELSE addresses

\* address::Store::connected: stamps the last success of a known address.
AddressConnected(addresses, nid, time) ==
    IF nid \in DOMAIN addresses
    THEN [addresses EXCEPT ![nid].last_success = time] ELSE addresses

(***************************************************************************)
(* Messages (service/message.rs)                                           *)
(***************************************************************************)

\* An announcement: `valid` is the outcome of Announcement::verify, `refs`
\* the signed refs per remote with the outcome of their verification,
\* `fresh` the outcome of RefsAnnouncement::is_fresh on the local storage,
\* and `alias` whether NodeAnnouncement::alias reads the alias.
Announcement(node, kind, timestamp, valid, inventory, rid, refs, fresh, seed) ==
    [type |-> "Announcement", node |-> node, kind |-> kind,
     timestamp |-> timestamp, valid |-> valid, inventory |-> inventory,
     rid |-> rid, refs |-> refs, fresh |-> fresh, synced |-> FALSE, seed |-> seed,
     alias |-> TRUE]

InventoryAnnouncement(node, timestamp, inventory) ==
    Announcement(node, "Inventory", timestamp, TRUE, inventory, Nil, {}, FALSE, FALSE)

NodeAnnouncement(node, timestamp, seed) ==
    Announcement(node, "Node", timestamp, TRUE, <<>>, Nil, {}, FALSE, seed)

RefsAnnouncement(node, timestamp, rid, refs, fresh) ==
    Announcement(node, "Refs", timestamp, TRUE, <<>>, rid, refs, fresh, FALSE)

Subscribe(filter, since, until) ==
    [type |-> "Subscribe", filter |-> filter, since |-> since, until |-> until]

\* Announcement::matches: refs announcements are matched against the filter.
Matches(ann, filter) ==
    IF ann.kind = "Refs" THEN FilterContains(filter, ann.rid) ELSE TRUE

(***************************************************************************)
(* Service (radicle-node/src/service.rs)                                   *)
(*                                                                         *)
(* A service state s is a record of the fields of `Service`:               *)
(*   id, config, clock, sessions, routing, gossip, tracking, trusted,      *)
(*   storage, addresses, filter, fetch_reqs, outbox, node, last_idle,      *)
(*   last_sync, last_prune, last_announce, start_time                      *)
(* together with what the service has sent on the channels it holds:       *)
(*   replies  the results each user fetch responder has received,          *)
(*   events   the events emitted since the subscribers last read them.     *)
(***************************************************************************)

Emit(s, ev) == [s EXCEPT !.events = Append(@, ev)]

\* Config::is_persistent / Config::peer: the peers of config.connect.
IsPersistent(s, nid) == nid \in s.config.connect

\* ReadStorage::inventory
Inventory(s) == SetToSeq(s.storage)

\* Sessions::connected
ConnectedPeers(s) == {n \in DOMAIN s.sessions : IsConnected(s.sessions[n])}

\* Sessions::is_connected
SessionsIsConnected(s, nid) ==
    IF nid \in DOMAIN s.sessions THEN IsConnected(s.sessions[nid]) ELSE FALSE

\* Sessions::is_disconnected
SessionsIsDisconnected(s, nid) ==
    IF nid \in DOMAIN s.sessions THEN IsDisconnected(s.sessions[nid]) ELSE TRUE

\* Sends a result to the user responder registered under key and removes it.
Respond(s, key, result) ==
    [s EXCEPT !.replies[s.fetch_reqs[key]] = Append(@, result),
              !.fetch_reqs = Drop(@, key)]

\* A variant of Service::track_repo that updates the policy and leaves the
\* filter alone.
TrackRepoKeepingFilter(s, rid, scope) ==
    [s EXCEPT !.tracking = TrackingTrackRepo(@, rid, scope)]

\* Service::track_repo
TrackRepo(s, rid, scope) ==
    [s EXCEPT !.tracking = TrackingTrackRepo(@, rid, scope),
              !.filter = FilterInsert(@, rid)]

\* A variant of Service::untrack_repo that removes the policy and does not
\* rebuild the filter.
UntrackRepoKeepingFilter(s, rid) ==
    [s EXCEPT !.tracking = TrackingUntrackRepo(@, rid)]

\* Service::untrack_repo
UntrackRepo(s, rid) ==
    LET tracking == TrackingUntrackRepo(s.tracking, rid) IN
    [s EXCEPT !.tracking = tracking,
              !.filter = FilterNew(TrackedRids(tracking))]

\* Service::filter
Filter(s) == IF s.config.policy = "Track" THEN FilterDefault ELSE s.filter

\* A variant of Service::fetch that hands a queued repository to the worker
\* pool as well, as if the Queued arm fell through to the Ready arm.
FetchIgnoringLimit(s, rid, from) ==
    IF from \notin DOMAIN s.sessions THEN s
    ELSE IF ~IsConnected(s.sessions[from]) THEN s
    ELSE LET f == SessionFetch(s.sessions[from], rid, s.config.fetch_concurrency)
             s1 == [s EXCEPT !.sessions[from] = f.session]
             ns == NamespacesFor(s1, rid)
         IN IF f.result \in {"Ready", "Queued"}
            THEN IF ns.ok
                 THEN [s1 EXCEPT !.outbox = Append(@, IoFetch(from, rid, ns.namespaces))]
                 ELSE IF <<rid, from>> \in DOMAIN s1.fetch_reqs
                      THEN Respond(s1, <<rid, from>>, "Failed")
                      ELSE s1
            ELSE s1

\* Service::fetch
Fetch(s, rid, from) ==
    IF from \notin DOMAIN s.sessions THEN s
    ELSE IF ~IsConnected(s.sessions[from]) THEN s
    ELSE LET f == SessionFetch(s.sessions[from], rid, s.config.fetch_concurrency)
             s1 == [s EXCEPT !.sessions[from] = f.session]
             ns == NamespacesFor(s1, rid)
         IN IF f.result = "Ready"
            THEN IF ns.ok
                 THEN [s1 EXCEPT !.outbox = Append(@, IoFetch(from, rid, ns.namespaces))]
                 ELSE IF <<rid, from>> \in DOMAIN s1.fetch_reqs
                      THEN Respond(s1, <<rid, from>>, "Failed")
                      ELSE s1
            ELSE s1

\* Service::connect
Connect(s, nid) ==
    IF nid \in DOMAIN s.sessions THEN s
    ELSE IF nid = s.id THEN s
    ELSE [s EXCEPT !.addresses = AddressAttempted(@, nid, s.clock),
                   !.sessions = Put(@, nid, SessionOutbound(IsPersistent(s, nid))),
                   !.outbox = Append(@, IoConnect(nid))]

\* Service::reconnect
Reconnect(s, nid) ==
    IF nid \in DOMAIN s.sessions
    THEN [s EXCEPT !.sessions[nid] = ToInitial(@),
                   !.outbox = Append(@, IoConnect(nid))]
    ELSE s

\* Service::sync_routing, the insert loop: acc is [s, added, updated].
RECURSIVE SyncRoutingInsert(_, _, _, _)
SyncRoutingInsert(acc, inventory, from, timestamp) ==
    IF inventory = <<>> THEN acc
    ELSE LET rid == Head(inventory)
             ins == RoutingInsert(acc.s.routing, rid, from, timestamp)
             s1 == [acc.s EXCEPT !.routing = ins.routing]
             next == IF ins.result = "SeedAdded"
                     THEN [acc EXCEPT !.s = Emit(s1, [type |-> "SeedDiscovered",
                                                     rid |-> rid, nid |-> from]),
                                      !.added = @ \cup {rid}]
                     ELSE IF ins.result = "TimeUpdated"
                     THEN [acc EXCEPT !.s = s1, !.updated = @ \cup {rid}]
                     ELSE [acc EXCEPT !.s = s1]
         IN SyncRoutingInsert(next, Tail(inventory), from, timestamp)

\* A variant of Service::sync_routing that inserts the announced
\* repositories and removes none.
SyncRoutingKeeping(s, inventory, from, timestamp) ==
    LET ins == SyncRoutingInsert([s |-> s, added |-> {}, updated |-> {}],
                                 inventory, from, timestamp)
    IN [s |-> ins.s, added |-> ins.added, updated |-> ins.updated, removed |-> {}]

\* Service::sync_routing: the routes of `from` become the given inventory.
SyncRouting(s, inventory, from, timestamp) ==
    LET ins == SyncRoutingInsert([s |-> s, added |-> {}, updated |-> {}],
                                 inventory, from, timestamp)
        removed == RoutingResources(ins.s.routing, from) \ Range(inventory)
        dropped == SetToSeq(removed)
    IN [s |-> [ins.s EXCEPT
                 !.routing = [k \in DOMAIN @ \ {<<rid, from>> : rid \in removed} |-> @[k]],
                 !.events = @ \o [i \in 1..Len(dropped) |->
                                    [type |-> "SeedDropped", rid |-> dropped[i],
                                     nid |-> from]]],
        added |-> ins.added, updated |-> ins.updated, removed |-> removed]

SyncedIsEmpty(synced) ==
    synced.added = {} /\ synced.removed = {} /\ synced.updated = {}

\* Service::sync_inventory
SyncInventory(s) == SyncRouting(s, Inventory(s), s.id, s.clock)

\* Service::announce_inventory
AnnounceInventory(s, inventory) ==
    [s EXCEPT !.outbox = Broadcast(@, InventoryAnnouncement(s.id, s.clock, inventory),
                                   ConnectedPeers(s))]

\* Service::announce_refs
AnnounceRefs(s, rid, remotes) ==
    IF rid \notin s.storage THEN s
    ELSE [s EXCEPT !.outbox =
            Broadcast(@, RefsAnnouncement(s.id, s.clock, rid,
                                          {[id |-> n, valid |-> TRUE] : n \in remotes},
                                          TRUE),
                      ConnectedPeers(s))]

\* Service::sync_and_announce
SyncAndAnnounce(s) ==
    LET synced == SyncInventory(s) IN
    IF synced.added \cup synced.removed # {}
    THEN AnnounceInventory(synced.s, Inventory(synced.s))
    ELSE synced.s

\* A variant of Service::fetched that announces the fetched refs also when
\* the fetch was requested by a user, and that reports every outcome of a
\* fetch with a RefsFetched event.
FetchedAnnouncingAlways(s, rid, remote, result) ==
    LET s0 == Emit(s, [type |-> "RefsFetched", rid |-> rid, nid |-> remote])
        s1 == IF ~result.ok /\ result.timeout
              THEN [s0 EXCEPT !.outbox = Append(@, IoDisconnect(remote, "Fetch"))]
              ELSE s0
        s2 == IF <<rid, remote>> \in DOMAIN s1.fetch_reqs
              THEN AnnounceRefs(Respond(s1, <<rid, remote>>,
                                        IF result.ok THEN "Success" ELSE "Failed"),
                                rid, result.namespaces)
              ELSE IF result.ok /\ result.updated
              THEN AnnounceRefs(s1, rid, result.namespaces)
              ELSE s1
        s3 == SyncAndAnnounce(s2)
    IN IF remote \in DOMAIN s3.sessions
       THEN LET f == SessionFetched(s3.sessions[remote], rid)
                s4 == [s3 EXCEPT !.sessions[remote] = f.session]
            IN IF f.dequeued # Nil THEN Fetch(s4, f.dequeued, remote) ELSE s4
       ELSE s3

\* Service::fetched; result is [ok, updated, timeout, namespaces].
Fetched(s, rid, remote, result) ==
    LET s1 == IF result.ok
              THEN Emit(s, [type |-> "RefsFetched", rid |-> rid, nid |-> remote])
              ELSE IF result.timeout
              THEN [s EXCEPT !.outbox = Append(@, IoDisconnect(remote, "Fetch"))]
              ELSE s
        s2 == IF <<rid, remote>> \in DOMAIN s1.fetch_reqs
              THEN Respond(s1, <<rid, remote>>,
                           IF result.ok THEN "Success" ELSE "Failed")
              ELSE IF result.ok /\ result.updated
              THEN AnnounceRefs(s1, rid, result.namespaces)
              ELSE s1
        s3 == SyncAndAnnounce(s2)
    IN IF remote \in DOMAIN s3.sessions
       THEN LET f == SessionFetched(s3.sessions[remote], rid)
                s4 == [s3 EXCEPT !.sessions[remote] = f.session]
            IN IF f.dequeued # Nil THEN Fetch(s4, f.dequeued, remote) ELSE s4
       ELSE s3

\* Service::attempted
Attempted(s, nid) ==
    IF nid \in DOMAIN s.sessions
    THEN [s EXCEPT !.sessions[nid] = ToAttempted(@)]
    ELSE s

\* Integer subtraction of unsigned timestamps, wrapping at the width of the
\* model's timestamps.
WrappingSub(a, b) == IF a >= b THEN a - b ELSE TimestampMax + 1 - (b - a)

\* gossip::handshake
Handshake(s) ==
    << NodeAnnouncement(s.id, s.node.timestamp, s.node.seed),
       InventoryAnnouncement(s.id, s.clock, Inventory(s)),
       Subscribe(Filter(s), WrappingSub(s.clock, SUBSCRIBE_BACKLOG_DELTA),
                 TimestampMax) >>

\* Service::connected
Connected(s, remote, link) ==
    LET s1 == Emit(s, [type |-> "PeerConnected", rid |-> Nil, nid |-> remote])
        msgs == Handshake(s)
    IN IF link = "outbound"
       THEN IF remote \in DOMAIN s1.sessions
            THEN [s1 EXCEPT !.sessions[remote] = ToConnected(@, s.clock),
                            !.outbox = WriteAll(@, remote, msgs),
                            !.addresses = AddressConnected(@, remote, s.clock)]
            ELSE s1
       ELSE IF remote \in DOMAIN s1.sessions THEN s1
            ELSE [s1 EXCEPT
                    !.sessions = Put(@, remote,
                                     SessionInbound(IsPersistent(s, remote), s.clock)),
                    !.outbox = WriteAll(@, remote, msgs)]

\* Service::available_peers
AvailablePeers(s) ==
    LET outbound == Cardinality({n \in DOMAIN s.sessions :
                        /\ s.sessions[n].link = "outbound"
                        /\ (IsConnected(s.sessions[n]) \/ IsConnecting(s.sessions[n]))})
        wanted == SaturatingSub(TARGET_OUTBOUND_PEERS, outbound)
    IN IF wanted = 0 THEN <<>>
       ELSE Take(SetToSeq({n \in DOMAIN s.addresses :
                             n \notin DOMAIN s.sessions /\ n # s.id}), wanted)

\* Service::maintain_connections, the connect loop over the available peers.
RECURSIVE ConnectAll(_, _, _)
ConnectAll(s, peers, now) ==
    IF peers = <<>> THEN s
    ELSE ConnectAll(
           IF SaturatingSub(now, s.addresses[Head(peers)].last_attempt)
                >= MAX_RECONNECTION_DELTA
           THEN Connect(s, Head(peers)) ELSE s,
           Tail(peers), now)

\* Service::maintain_connections
MaintainConnections(s) == ConnectAll(s, AvailablePeers(s), s.clock)

\* A variant of the reconnection delay that is not raised to the minimum.
ReconnectDelayUnclamped(attempts) ==
    IF attempts >= 20 THEN MAX_RECONNECTION_DELTA
    ELSE Min((2 ^ attempts) * 1000, MAX_RECONNECTION_DELTA)

\* The reconnection delay of Service::disconnected: 2^attempts seconds
\* clamped to [MIN_RECONNECTION_DELTA, MAX_RECONNECTION_DELTA]. The power
\* saturates at the width of u64, far above the upper clamp, which every
\* exponent from 12 on reaches.
ReconnectDelay(attempts) ==
    IF attempts >= 20 THEN MAX_RECONNECTION_DELTA
    ELSE Min(Max((2 ^ attempts) * 1000, MIN_RECONNECTION_DELTA), MAX_RECONNECTION_DELTA)

\* A variant of Service::disconnected that removes the session of every
\* peer, persistent or not.
DisconnectedDroppingSession(s, remote) ==
    IF remote \notin DOMAIN s.sessions THEN s
    ELSE LET session == s.sessions[remote]
             failed == {<<rid, remote>> : rid \in
                          {r \in SessionFetching(session) :
                             <<r, remote>> \in DOMAIN s.fetch_reqs}}
             notified == {s.fetch_reqs[k] : k \in failed}
             s1 == [s EXCEPT
                      !.replies = [r \in DOMAIN @ |->
                                     IF r \in notified THEN Append(@[r], "Failed")
                                     ELSE @[r]],
                      !.fetch_reqs = [k \in DOMAIN @ \ failed |-> @[k]]]
             s2 == [s1 EXCEPT !.sessions = Drop(@, remote)]
         IN IF session.link = "outbound" THEN MaintainConnections(s2) ELSE s2

\* Service::disconnected
Disconnected(s, remote) ==
    IF remote \notin DOMAIN s.sessions THEN s
    ELSE LET session == s.sessions[remote]
             failed == {<<rid, remote>> : rid \in
                          {r \in SessionFetching(session) :
                             <<r, remote>> \in DOMAIN s.fetch_reqs}}
             notified == {s.fetch_reqs[k] : k \in failed}
             s1 == [s EXCEPT
                      !.replies = [r \in DOMAIN @ |->
                                     IF r \in notified THEN Append(@[r], "Failed")
                                     ELSE @[r]],
                      !.fetch_reqs = [k \in DOMAIN @ \ failed |-> @[k]]]
             delay == ReconnectDelay(session.attempts)
         IN IF IsPersistent(s, remote)
            THEN [s1 EXCEPT
                    !.sessions[remote] = ToDisconnected(@, s.clock, s.clock + delay),
                    !.outbox = Append(@, IoWakeup(delay))]
            ELSE LET s2 == [s1 EXCEPT !.sessions = Drop(@, remote)]
                 IN IF session.link = "outbound" THEN MaintainConnections(s2) ELSE s2

(***************************************************************************)
(* Gossip log (service.rs, `Node` and `mod gossip`)                        *)
(***************************************************************************)

NodeDefault == [last_refs |-> <<>>, last_inventory |-> <<>>, last_node |-> <<>>]

\* Node::refs_announced
RefsAnnounced(node, rid, ann) ==
    IF rid \notin DOMAIN node.last_refs
    THEN [updated |-> TRUE, node |-> [node EXCEPT !.last_refs = Put(@, rid, ann)]]
    ELSE IF ann.timestamp > node.last_refs[rid].timestamp
    THEN [updated |-> TRUE, node |-> [node EXCEPT !.last_refs = Put(@, rid, ann)]]
    ELSE [updated |-> FALSE, node |-> node]

\* A variant of Node::inventory_announced that also accepts an announcement
\* whose timestamp equals the stored one.
InventoryAnnouncedOrEqual(node, ann) ==
    IF node.last_inventory = <<>>
    THEN [updated |-> TRUE, node |-> [node EXCEPT !.last_inventory = <<ann>>]]
    ELSE IF ann.timestamp >= node.last_inventory[1].timestamp
    THEN [updated |-> TRUE, node |-> [node EXCEPT !.last_inventory = <<ann>>]]
    ELSE [updated |-> FALSE, node |-> node]

\* Node::inventory_announced
InventoryAnnounced(node, ann) ==
    IF node.last_inventory = <<>>
    THEN [updated |-> TRUE, node |-> [node EXCEPT !.last_inventory = <<ann>>]]
    ELSE IF ann.timestamp > node.last_inventory[1].timestamp
    THEN [updated |-> TRUE, node |-> [node EXCEPT !.last_inventory = <<ann>>]]
    ELSE [updated |-> FALSE, node |-> node]

\* Node::node_announced
NodeAnnounced(node, ann) ==
    IF node.last_node = <<>>
    THEN [updated |-> TRUE, node |-> [node EXCEPT !.last_node = <<ann>>]]
    ELSE IF ann.timestamp > node.last_node[1].timestamp
    THEN [updated |-> TRUE, node |-> [node EXCEPT !.last_node = <<ann>>]]
    ELSE [updated |-> FALSE, node |-> node]

\* The announcements a gossip node holds: node, inventory, then refs.
NodeAnnouncements(node) ==
    node.last_node \o node.last_inventory
      \o [i \in 1..Cardinality(DOMAIN node.last_refs) |->
            node.last_refs[SetToSeq(DOMAIN node.last_refs)[i]]]

RECURSIVE Flatten(_)
Flatten(qs) == IF qs = <<>> THEN <<>> ELSE Head(qs) \o Flatten(Tail(qs))

\* A variant of Gossip::filtered whose window includes its end.
GossipFilteredToEnd(gossip, filter, start, end) ==
    LET nids == SetToSeq(DOMAIN gossip)
        all == Flatten([i \in 1..Len(nids) |-> NodeAnnouncements(gossip[nids[i]])])
        InWindow(ann) == /\ ann.timestamp >= start
                         /\ ann.timestamp <= end
                         /\ Matches(ann, filter)
    IN SelectSeq(all, InWindow)

\* Gossip::filtered: the stored announcements with start <= timestamp < end
\* that match the filter.
GossipFiltered(gossip, filter, start, end) ==
    LET nids == SetToSeq(DOMAIN gossip)
        all == Flatten([i \in 1..Len(nids) |-> NodeAnnouncements(gossip[nids[i]])])
        InWindow(ann) == /\ ann.timestamp >= start
                         /\ ann.timestamp < end
                         /\ Matches(ann, filter)
    IN SelectSeq(all, InWindow)

(***************************************************************************)
(* Message handling                                                        *)
(***************************************************************************)

\* RefsAnnouncement::is_fresh: a repository we do not have is always fresh.
IsFresh(s, ann) == ann.rid \notin s.storage \/ ann.fresh

\* A variant of Service::should_fetch_refs_announcement that does not look
\* at the scope.
ShouldFetchRefsAnnouncementAnyScope(s, ann, scope) == IsFresh(s, ann)

\* Service::should_fetch_refs_announcement
ShouldFetchRefsAnnouncement(s, ann, scope) ==
    IF ~IsFresh(s, ann) THEN FALSE
    ELSE IF scope = "All" THEN TRUE
    ELSE LET ns == NamespacesFor(s, ann.rid) IN
         IF ~ns.ok THEN FALSE
         ELSE IF ns.namespaces.kind = "All" THEN TRUE
         ELSE \E refs \in ann.refs : refs.id \in ns.namespaces.nodes \ {s.id}

\* Service::handle_announcement, the loop over the announced inventory.
RECURSIVE FetchMissingTracked(_, _, _)
FetchMissingTracked(s, inventory, announcer) ==
    IF inventory = <<>> THEN s
    ELSE LET id == Head(inventory)
             s1 == IF announcer \in DOMAIN s.sessions
                   THEN LET sub == s.sessions[announcer].subscribe
                            s0 == IF sub # <<>>
                                  THEN [s EXCEPT !.sessions[announcer].subscribe =
                                          <<[sub[1] EXCEPT !.filter = FilterInsert(@, id)]>>]
                                  ELSE s
                        IN IF IsRepoTracked(s0, id) /\ id \notin s0.storage
                           THEN Fetch(s0, id, announcer) ELSE s0
                   ELSE s
         IN FetchMissingTracked(s1, Tail(inventory), announcer)

\* A variant of the Inventory arm of Service::handle_announcement that
\* records an inventory and never asks for it to be relayed.
HandleInventoryWithoutRelay(s, ann, relay) ==
    LET announcer == ann.node
        g == InventoryAnnounced(s.gossip[announcer], ann)
        s1 == [s EXCEPT !.gossip[announcer] = g.node]
        synced == SyncRouting(s1, ann.inventory, announcer, ann.timestamp)
    IN IF ~g.updated THEN [s |-> s, result |-> "Drop"]
       ELSE IF SyncedIsEmpty(synced) THEN [s |-> synced.s, result |-> "Drop"]
       ELSE [s |-> FetchMissingTracked(synced.s, ann.inventory, announcer),
             result |-> "Drop"]

\* Service::handle_announcement, AnnouncementMessage::Inventory
HandleInventory(s, ann, relay) ==
    LET announcer == ann.node
        g == InventoryAnnounced(s.gossip[announcer], ann)
        s1 == [s EXCEPT !.gossip[announcer] = g.node]
        synced == SyncRouting(s1, ann.inventory, announcer, ann.timestamp)
    IN IF ~g.updated THEN [s |-> s, result |-> "Drop"]
       ELSE IF SyncedIsEmpty(synced) THEN [s |-> synced.s, result |-> "Drop"]
       ELSE [s |-> FetchMissingTracked(synced.s, ann.inventory, announcer),
             result |-> IF relay THEN "Relay" ELSE "Drop"]

\* A variant of the Refs arm of Service::handle_announcement that fetches
\* from the peer the announcement was received from.
HandleRefsFetchingFromRelayer(s, relayer, ann, relay) ==
    LET announcer == ann.node
        ins == RoutingInsert(s.routing, ann.rid, announcer, ann.timestamp)
        s1 == [s EXCEPT !.routing = ins.routing]
        s2 == IF ins.result = "SeedAdded"
              THEN Emit(s1, [type |-> "SeedDiscovered", rid |-> ann.rid,
                             nid |-> relayer])
              ELSE s1
        g == RefsAnnounced(s2.gossip[announcer], ann.rid, ann)
        s3 == [s2 EXCEPT !.gossip[announcer] = g.node]
        s4 == IF ann.synced
              THEN Emit(s3, [type |-> "RefsSynced", rid |-> ann.rid, nid |-> announcer])
              ELSE s3
        entry == RepoPolicy(s4, ann.rid)
    IN IF \E theirs \in ann.refs : ~theirs.valid
       THEN [s |-> s, result |-> "Misbehavior"]
       ELSE IF ~g.updated THEN [s |-> s2, result |-> "Drop"]
       ELSE IF entry.policy = "Track"
       THEN [s |-> IF /\ SessionsIsConnected(s4, relayer)
                      /\ ShouldFetchRefsAnnouncement(s4, ann, entry.scope)
                   THEN Fetch(s4, ann.rid, relayer) ELSE s4,
             result |-> IF relay THEN "Relay" ELSE "Drop"]
       ELSE [s |-> s4, result |-> "Drop"]

\* Service::handle_announcement, AnnouncementMessage::Refs
HandleRefs(s, relayer, ann, relay) ==
    LET announcer == ann.node
        ins == RoutingInsert(s.routing, ann.rid, announcer, ann.timestamp)
        s1 == [s EXCEPT !.routing = ins.routing]
        s2 == IF ins.result = "SeedAdded"
              THEN Emit(s1, [type |-> "SeedDiscovered", rid |-> ann.rid,
                             nid |-> relayer])
              ELSE s1
        g == RefsAnnounced(s2.gossip[announcer], ann.rid, ann)
        s3 == [s2 EXCEPT !.gossip[announcer] = g.node]
        s4 == IF ann.synced
              THEN Emit(s3, [type |-> "RefsSynced", rid |-> ann.rid, nid |-> announcer])
              ELSE s3
        entry == RepoPolicy(s4, ann.rid)
    IN IF \E theirs \in ann.refs : ~theirs.valid
       THEN [s |-> s, result |-> "Misbehavior"]
       ELSE IF ~g.updated THEN [s |-> s2, result |-> "Drop"]
       ELSE IF entry.policy = "Track"
       THEN [s |-> IF /\ SessionsIsConnected(s4, announcer)
                      /\ ShouldFetchRefsAnnouncement(s4, ann, entry.scope)
                   THEN Fetch(s4, ann.rid, announcer) ELSE s4,
             result |-> IF relay THEN "Relay" ELSE "Drop"]
       ELSE [s |-> s4, result |-> "Drop"]

\* A variant of the Node arm of Service::handle_announcement that stores the
\* address of every announcer and relays every fresh announcement.
HandleNodeStoringAll(s, ann, relay) ==
    LET announcer == ann.node
        g == NodeAnnounced(s.gossip[announcer], ann)
        s1 == [s EXCEPT !.gossip[announcer] = g.node]
        ins == AddressInsert(s1.addresses, announcer, ann.timestamp)
    IN IF ~g.updated THEN [s |-> s, result |-> "Drop"]
       ELSE IF ~ann.alias THEN [s |-> s1, result |-> "Drop"]
       ELSE [s |-> [s1 EXCEPT !.addresses = ins.addresses],
             result |-> IF relay THEN "Relay" ELSE "Drop"]

\* Service::handle_announcement, AnnouncementMessage::Node
HandleNode(s, ann, relay) ==
    LET announcer == ann.node
        g == NodeAnnounced(s.gossip[announcer], ann)
        s1 == [s EXCEPT !.gossip[announcer] = g.node]
        ins == AddressInsert(s1.addresses, announcer, ann.timestamp)
    IN IF ~g.updated THEN [s |-> s, result |-> "Drop"]
       ELSE IF ~ann.alias THEN [s |-> s1, result |-> "Drop"]
       ELSE IF ~ann.seed THEN [s |-> s1, result |-> IF relay THEN "Relay" ELSE "Drop"]
       ELSE [s |-> [s1 EXCEPT !.addresses = ins.addresses],
             result |-> IF ins.updated /\ relay THEN "Relay" ELSE "Drop"]

\* A variant of Service::handle_announcement that rejects a timestamp from
\* MAX_TIME_DELTA in the future on, instead of beyond it.
HandleAnnouncementRejectingAtDelta(s, relayer, ann) ==
    LET announcer == ann.node
        s1 == IF announcer \in DOMAIN s.gossip THEN s
              ELSE [s EXCEPT !.gossip = Put(@, announcer, NodeDefault)]
    IN IF ~ann.valid THEN [s |-> s, result |-> "Misbehavior"]
       ELSE IF announcer = s.id THEN [s |-> s, result |-> "Drop"]
       ELSE IF SaturatingSub(ann.timestamp, s.clock) >= MAX_TIME_DELTA
       THEN [s |-> s1, result |-> "InvalidTimestamp"]
       ELSE IF ann.kind = "Inventory" THEN HandleInventory(s1, ann, s.config.relay)
       ELSE IF ann.kind = "Refs" THEN HandleRefs(s1, relayer, ann, s.config.relay)
       ELSE HandleNode(s1, ann, s.config.relay)

\* A variant of Service::handle_announcement that does not verify the
\* signature of the announcement.
HandleAnnouncementUnverified(s, relayer, ann) ==
    LET announcer == ann.node
        s1 == IF announcer \in DOMAIN s.gossip THEN s
              ELSE [s EXCEPT !.gossip = Put(@, announcer, NodeDefault)]
    IN IF announcer = s.id THEN [s |-> s, result |-> "Drop"]
       ELSE IF SaturatingSub(ann.timestamp, s.clock) > MAX_TIME_DELTA
       THEN [s |-> s1, result |-> "InvalidTimestamp"]
       ELSE IF ann.kind = "Inventory" THEN HandleInventory(s1, ann, s.config.relay)
       ELSE IF ann.kind = "Refs" THEN HandleRefs(s1, relayer, ann, s.config.relay)
       ELSE HandleNode(s1, ann, s.config.relay)

\* A variant of Service::handle_announcement that handles the announcements
\* of the local node like any other.
HandleAnnouncementOfSelf(s, relayer, ann) ==
    LET announcer == ann.node
        s1 == IF announcer \in DOMAIN s.gossip THEN s
              ELSE [s EXCEPT !.gossip = Put(@, announcer, NodeDefault)]
    IN IF ~ann.valid THEN [s |-> s, result |-> "Misbehavior"]
       ELSE IF SaturatingSub(ann.timestamp, s.clock) > MAX_TIME_DELTA
       THEN [s |-> s1, result |-> "InvalidTimestamp"]
       ELSE IF ann.kind = "Inventory" THEN HandleInventory(s1, ann, s.config.relay)
       ELSE IF ann.kind = "Refs" THEN HandleRefs(s1, relayer, ann, s.config.relay)
       ELSE HandleNode(s1, ann, s.config.relay)

\* Service::handle_announcement: the state after the call and its result,
\* "Relay" for Ok(true), "Drop" for Ok(false), or the session error.
HandleAnnouncement(s, relayer, ann) ==
    LET announcer == ann.node
        s1 == IF announcer \in DOMAIN s.gossip THEN s
              ELSE [s EXCEPT !.gossip = Put(@, announcer, NodeDefault)]
    IN IF ~ann.valid THEN [s |-> s, result |-> "Misbehavior"]
       ELSE IF announcer = s.id THEN [s |-> s, result |-> "Drop"]
       ELSE IF SaturatingSub(ann.timestamp, s.clock) > MAX_TIME_DELTA
       THEN [s |-> s1, result |-> "InvalidTimestamp"]
       ELSE IF ann.kind = "Inventory" THEN HandleInventory(s1, ann, s.config.relay)
       ELSE IF ann.kind = "Refs" THEN HandleRefs(s1, relayer, ann, s.config.relay)
       ELSE HandleNode(s1, ann, s.config.relay)

\* Outbox::relay: one Write per recipient; a refs announcement only goes to
\* the recipients whose subscription filter matches it.
OutboxRelay(s, ann, nids) ==
    LET interested == {n \in nids :
                         \/ ann.kind # "Refs"
                         \/ /\ s.sessions[n].subscribe # <<>>
                            /\ Matches(ann, s.sessions[n].subscribe[1].filter)}
    IN [s EXCEPT !.outbox = Broadcast(@, ann, interested)]

\* A variant of Service::handle_message that leaves the announcer in the
\* relay set.
HandleMessageRelayingToAnnouncer(s, remote, message) ==
    IF remote \notin DOMAIN s.sessions THEN [s |-> s, error |-> "None"]
    ELSE
    LET s0 == [s EXCEPT !.sessions[remote].last_active = s.clock]
        peer == s0.sessions[remote]
    IN IF ~IsConnected(peer) THEN [s |-> s0, error |-> "None"]
       ELSE IF message.type = "Announcement"
       THEN LET h == HandleAnnouncement(s0, remote, message)
                relay_to == ConnectedPeers(h.s) \ {remote}
            IN IF h.result = "Relay"
               THEN [s |-> OutboxRelay(h.s, message, relay_to), error |-> "None"]
               ELSE IF h.result = "Drop" THEN [s |-> h.s, error |-> "None"]
               ELSE [s |-> h.s, error |-> h.result]
       ELSE IF message.type = "Subscribe"
       THEN LET NotByRemote(ann) == ann.node # remote
                replay == SelectSeq(GossipFiltered(s0.gossip, message.filter,
                                                   message.since, message.until),
                                    NotByRemote)
            IN [s |-> [s0 EXCEPT !.outbox = WriteAll(@, remote, replay),
                                 !.sessions[remote].subscribe = <<message>>],
                error |-> "None"]
       ELSE IF message.type = "Ping"
       THEN IF message.ponglen > MAX_PONG_ZEROES THEN [s |-> s0, error |-> "None"]
            ELSE [s |-> [s0 EXCEPT !.outbox =
                           Append(@, IoWrite(remote, [type |-> "Pong",
                                                      zeroes |-> message.ponglen]))],
                  error |-> "None"]
       ELSE \* Pong
            IF peer.ping.state = "AwaitingResponse" /\ peer.ping.len = message.zeroes
            THEN [s |-> [s0 EXCEPT !.sessions[remote].ping =
                                      [state |-> "Ok", len |-> 0]],
                  error |-> "None"]
            ELSE [s |-> s0, error |-> "None"]

\* A variant of Service::handle_message that answers a Ping of any length.
HandleMessageAnsweringAnyPing(s, remote, message) ==
    IF remote \notin DOMAIN s.sessions THEN [s |-> s, error |-> "None"]
    ELSE
    LET s0 == [s EXCEPT !.sessions[remote].last_active = s.clock]
        peer == s0.sessions[remote]
    IN IF ~IsConnected(peer) THEN [s |-> s0, error |-> "None"]
       ELSE IF message.type = "Announcement"
       THEN LET h == HandleAnnouncement(s0, remote, message)
                relay_to == ConnectedPeers(h.s) \ {remote, message.node}
            IN IF h.result = "Relay"
               THEN [s |-> OutboxRelay(h.s, message, relay_to), error |-> "None"]
               ELSE IF h.result = "Drop" THEN [s |-> h.s, error |-> "None"]
               ELSE [s |-> h.s, error |-> h.result]
       ELSE IF message.type = "Subscribe"
       THEN LET NotByRemote(ann) == ann.node # remote
                replay == SelectSeq(GossipFiltered(s0.gossip, message.filter,
                                                   message.since, message.until),
                                    NotByRemote)
            IN [s |-> [s0 EXCEPT !.outbox = WriteAll(@, remote, replay),
                                 !.sessions[remote].subscribe = <<message>>],
                error |-> "None"]
       ELSE IF message.type = "Ping"
       THEN [s |-> [s0 EXCEPT !.outbox =
                      Append(@, IoWrite(remote, [type |-> "Pong",
                                                 zeroes |-> message.ponglen]))],
             error |-> "None"]
       ELSE \* Pong
            IF peer.ping.state = "AwaitingResponse" /\ peer.ping.len = message.zeroes
            THEN [s |-> [s0 EXCEPT !.sessions[remote].ping =
                                      [state |-> "Ok", len |-> 0]],
                  error |-> "None"]
            ELSE [s |-> s0, error |-> "None"]

\* Service::handle_message: the state after the call and the session error
\* it returns ("None" for Ok).
HandleMessage(s, remote, message) ==
    IF remote \notin DOMAIN s.sessions THEN [s |-> s, error |-> "None"]
    ELSE
    LET s0 == [s EXCEPT !.sessions[remote].last_active = s.clock]
        peer == s0.sessions[remote]
    IN IF ~IsConnected(peer) THEN [s |-> s0, error |-> "None"]
       ELSE IF message.type = "Announcement"
       THEN LET h == HandleAnnouncement(s0, remote, message)
                relay_to == ConnectedPeers(h.s) \ {remote, message.node}
            IN IF h.result = "Relay"
               THEN [s |-> OutboxRelay(h.s, message, relay_to), error |-> "None"]
               ELSE IF h.result = "Drop" THEN [s |-> h.s, error |-> "None"]
               ELSE [s |-> h.s, error |-> h.result]
       ELSE IF message.type = "Subscribe"
       THEN LET NotByRemote(ann) == ann.node # remote
                replay == SelectSeq(GossipFiltered(s0.gossip, message.filter,
                                                   message.since, message.until),
                                    NotByRemote)
            IN [s |-> [s0 EXCEPT !.outbox = WriteAll(@, remote, replay),
                                 !.sessions[remote].subscribe = <<message>>],
                error |-> "None"]
       ELSE IF message.type = "Ping"
       THEN IF message.ponglen > MAX_PONG_ZEROES THEN [s |-> s0, error |-> "None"]
            ELSE [s |-> [s0 EXCEPT !.outbox =
                           Append(@, IoWrite(remote, [type |-> "Pong",
                                                      zeroes |-> message.ponglen]))],
                  error |-> "None"]
       ELSE \* Pong
            IF peer.ping.state = "AwaitingResponse" /\ peer.ping.len = message.zeroes
            THEN [s |-> [s0 EXCEPT !.sessions[remote].ping =
                                      [state |-> "Ok", len |-> 0]],
                  error |-> "None"]
            ELSE [s |-> s0, error |-> "None"]

\* Service::received_message
ReceivedMessage(s, remote, message) ==
    LET h == HandleMessage(s, remote, message) IN
    IF h.error = "None" THEN h.s
    ELSE [h.s EXCEPT !.outbox = Append(@, IoDisconnect(remote, h.error))]

(***************************************************************************)
(* Initialization, clock and periodic tasks                                *)
(***************************************************************************)

RECURSIVE ConnectEach(_, _)
ConnectEach(s, peers) ==
    IF peers = <<>> THEN s ELSE ConnectEach(Connect(s, Head(peers)), Tail(peers))

\* Service::initialize, the loop over the local inventory.
RECURSIVE TrackInventory(_, _, _)
TrackInventory(s, inventory, time) ==
    IF inventory = <<>> THEN s
    ELSE LET rid == Head(inventory)
             s1 == [s EXCEPT !.routing = RoutingInsert(@, rid, s.id, time).routing]
             s2 == IF ~IsRepoTracked(s1, rid) THEN TrackRepo(s1, rid, "Trusted") ELSE s1
         IN TrackInventory(s2, Tail(inventory), time)

\* Service::initialize
Initialize(s, time) ==
    LET s1 == ConnectEach([s EXCEPT !.start_time = time], SetToSeq(s.config.connect))
        s2 == TrackInventory(s1, Inventory(s1), time)
    IN [s2 EXCEPT !.addresses = AddressInsert(@, s.id, s.node.timestamp).addresses,
                  !.filter = FilterNew(TrackedRids(s2.tracking)),
                  !.outbox = Append(@, IoWakeup(IDLE_INTERVAL)),
                  !.initialized = TRUE]

\* Service::tick
Tick(s, now) == [s EXCEPT !.clock = now]

\* Session::ping: a Ping asking for ponglen zero bytes is written to the peer.
SessionPing(s, nid, ponglen) ==
    [s EXCEPT !.sessions[nid].ping = [state |-> "AwaitingResponse", len |-> ponglen],
              !.outbox = Append(@, IoWrite(nid, [type |-> "Ping", ponglen |-> ponglen]))]

RECURSIVE PingEach(_, _, _)
PingEach(s, nids, ponglen) ==
    IF nids = <<>> THEN s
    ELSE PingEach(SessionPing(s, Head(nids), ponglen), Tail(nids), ponglen)

\* Service::keep_alive
KeepAlive(s, now, ponglen) ==
    PingEach(s, SetToSeq({n \in ConnectedPeers(s) :
                SaturatingSub(now, s.sessions[n].last_active) >= KEEP_ALIVE_DELTA}),
             ponglen)

\* Service::disconnect_unresponsive_peers
DisconnectUnresponsivePeers(s, now) ==
    LET stale == SetToSeq({n \in ConnectedPeers(s) :
                   SaturatingSub(now, s.sessions[n].last_active)
                     >= STALE_CONNECTION_TIMEOUT})
    IN [s EXCEPT !.outbox = @ \o [i \in 1..Len(stale) |->
                                    IoDisconnect(stale[i], "Timeout")]]

\* Service::seeds, the connected seeds of a repository.
ConnectedSeeds(s, rid) ==
    {n \in RoutingGet(s.routing, rid) : n # s.id /\ SessionsIsConnected(s, n)}

\* Service::seeds, the disconnected seeds of a repository.
DisconnectedSeeds(s, rid) ==
    {n \in RoutingGet(s.routing, rid) :
        n # s.id /\ ~SessionsIsConnected(s, n) /\ SessionsIsDisconnected(s, n)}

RECURSIVE FetchFromEach(_, _, _)
FetchFromEach(s, rid, seeds) ==
    IF seeds = <<>> THEN s
    ELSE FetchFromEach(Fetch(s, rid, Head(seeds)), rid, Tail(seeds))

RECURSIVE FetchEachMissing(_, _)
FetchEachMissing(s, missing) ==
    IF missing = <<>> THEN s
    ELSE FetchEachMissing(
           FetchFromEach(s, Head(missing), SetToSeq(ConnectedSeeds(s, Head(missing)))),
           Tail(missing))

\* Service::fetch_missing_inventory
FetchMissingInventory(s) ==
    FetchEachMissing(s, SetToSeq(TrackedRids(s.tracking) \ s.storage))

\* routing::Store::prune: deletes up to `limit` entries older than `oldest`,
\* oldest first.
RECURSIVE RoutingPrune(_, _, _)
RoutingPrune(routing, oldest, limit) ==
    LET old == {k \in DOMAIN routing : routing[k] < oldest} IN
    IF limit = 0 \/ old = {} THEN routing
    ELSE LET k == CHOOSE x \in old : \A y \in old : routing[x] <= routing[y]
         IN RoutingPrune(Drop(routing, k), oldest, limit - 1)

\* A variant of Service::prune_routing_entries that prunes every old entry,
\* whatever the size of the table.
PruneRoutingEntriesUncapped(s, now) ==
    LET count == Cardinality(DOMAIN s.routing) IN
    [s EXCEPT !.routing =
       RoutingPrune(@, SaturatingSub(now, s.config.routing_max_age), count)]

\* Service::prune_routing_entries
PruneRoutingEntries(s, now) ==
    LET count == Cardinality(DOMAIN s.routing) IN
    IF count <= s.config.routing_max_size THEN s
    ELSE [s EXCEPT !.routing =
            RoutingPrune(@, SaturatingSub(now, s.config.routing_max_age),
                         count - s.config.routing_max_size)]

RECURSIVE ReconnectEach(_, _)
ReconnectEach(s, nids) ==
    IF nids = <<>> THEN s ELSE ReconnectEach(Reconnect(s, Head(nids)), Tail(nids))

\* A variant of Service::maintain_persistent that reconnects without
\* waiting for retry_at.
MaintainPersistentIgnoringRetryAt(s) ==
    ReconnectEach(s, SetToSeq({n \in DOMAIN s.sessions :
                    /\ IsPersistent(s, n)
                    /\ IsDisconnected(s.sessions[n])}))

\* Service::maintain_persistent
MaintainPersistent(s) ==
    ReconnectEach(s, SetToSeq({n \in DOMAIN s.sessions :
                    /\ IsPersistent(s, n)
                    /\ IsDisconnected(s.sessions[n])
                    /\ s.clock >= s.sessions[n].retry_at}))

\* A variant of Service::wake whose sync task does not record when it ran.
WakeForgettingSync(s, ponglen) ==
    LET now == s.clock
        s1 == IF SaturatingSub(now, s.last_idle) >= IDLE_INTERVAL
              THEN LET i1 == KeepAlive(s, now, ponglen)
                       i2 == DisconnectUnresponsivePeers(i1, now)
                       i3 == MaintainConnections(i2)
                   IN [i3 EXCEPT !.outbox = Append(@, IoWakeup(IDLE_INTERVAL)),
                                 !.last_idle = now]
              ELSE s
        s2 == IF SaturatingSub(now, s1.last_sync) >= SYNC_INTERVAL
              THEN [FetchMissingInventory(s1) EXCEPT
                      !.outbox = Append(@, IoWakeup(SYNC_INTERVAL))]
              ELSE s1
        s3 == IF SaturatingSub(now, s2.last_announce) >= ANNOUNCE_INTERVAL
              THEN [AnnounceInventory(s2, Inventory(s2)) EXCEPT
                      !.outbox = Append(@, IoWakeup(ANNOUNCE_INTERVAL)),
                      !.last_announce = now]
              ELSE s2
        s4 == IF SaturatingSub(now, s3.last_prune) >= PRUNE_INTERVAL
              THEN [PruneRoutingEntries(s3, now) EXCEPT
                      !.outbox = Append(@, IoWakeup(PRUNE_INTERVAL)),
                      !.last_prune = now]
              ELSE s3
    IN MaintainPersistent(s4)

\* Service::wake; ponglen is the length the keep-alive pings of this call
\* draw from the random number generator.
Wake(s, ponglen) ==
    LET now == s.clock
        s1 == IF SaturatingSub(now, s.last_idle) >= IDLE_INTERVAL
              THEN LET i1 == KeepAlive(s, now, ponglen)
                       i2 == DisconnectUnresponsivePeers(i1, now)
                       i3 == MaintainConnections(i2)
                   IN [i3 EXCEPT !.outbox = Append(@, IoWakeup(IDLE_INTERVAL)),
                                 !.last_idle = now]
              ELSE s
        s2 == IF SaturatingSub(now, s1.last_sync) >= SYNC_INTERVAL
              THEN [FetchMissingInventory(s1) EXCEPT
                      !.outbox = Append(@, IoWakeup(SYNC_INTERVAL)),
                      !.last_sync = now]
              ELSE s1
        s3 == IF SaturatingSub(now, s2.last_announce) >= ANNOUNCE_INTERVAL
              THEN [AnnounceInventory(s2, Inventory(s2)) EXCEPT
                      !.outbox = Append(@, IoWakeup(ANNOUNCE_INTERVAL)),
                      !.last_announce = now]
              ELSE s2
        s4 == IF SaturatingSub(now, s3.last_prune) >= PRUNE_INTERVAL
              THEN [PruneRoutingEntries(s3, now) EXCEPT
                      !.outbox = Append(@, IoWakeup(PRUNE_INTERVAL)),
                      !.last_prune = now]
              ELSE s3
    IN MaintainPersistent(s4)

(***************************************************************************)
(* Commands (Service::command)                                             *)
(***************************************************************************)

\* Command::Connect
CommandConnect(s, nid) == Connect(s, nid)

\* Command::Disconnect
CommandDisconnect(s, nid) ==
    [s EXCEPT !.outbox = Append(@, IoDisconnect(nid, "Command"))]

\* Command::Fetch; resp is the responder of the command.
CommandFetch(s, rid, seed, resp) ==
    Fetch([s EXCEPT !.fetch_reqs = Put(@, <<rid, seed>>, resp)], rid, seed)

\* Command::TrackRepo
CommandTrackRepo(s, rid, scope) ==
    LET s1 == TrackRepo(s, rid, scope) IN
    [s1 EXCEPT !.outbox = Broadcast(@, Subscribe(Filter(s1), s1.clock, TimestampMax),
                                    ConnectedPeers(s1))]

\* Command::UntrackRepo
CommandUntrackRepo(s, rid) == UntrackRepo(s, rid)

\* Command::TrackNode
CommandTrackNode(s, nid) == [s EXCEPT !.trusted = @ \cup {nid}]

\* Command::UntrackNode
CommandUntrackNode(s, nid) == [s EXCEPT !.trusted = @ \ {nid}]

\* Command::AnnounceRefs
CommandAnnounceRefs(s, rid) == AnnounceRefs(s, rid, {s.id})

\* Command::AnnounceInventory
CommandAnnounceInventory(s) == AnnounceInventory(s, Inventory(s))

\* Command::SyncInventory
CommandSyncInventory(s) == SyncInventory(s).s

(***************************************************************************)
(* Construction                                                            *)
(***************************************************************************)

\* Service::new. The tracking configuration is the table of repository
\* policies and the set of trusted nodes; replies records what each user
\* responder has been sent.
New(id, config, clock, routing, storage, addresses, tracking, trusted, node) ==
    [id |-> id, config |-> config, storage |-> storage, addresses |-> addresses,
     tracking |-> tracking, trusted |-> trusted, node |-> node, clock |-> clock,
     routing |-> routing, gossip |-> <<>>, outbox |-> <<>>, sessions |-> <<>>,
     fetch_reqs |-> <<>>, filter |-> FilterEmpty,
     last_idle |-> 0, last_sync |-> 0, last_prune |-> 0, last_announce |-> 0,
     start_time |-> 0, events |-> <<>>,
     replies |-> [r \in 1..MaxResponders |-> <<>>], initialized |-> FALSE]

\* Config: the fields of the configuration the service reads.
Config(policy, connect, fetch_concurrency) ==
    [relay |-> TRUE, policy |-> policy, connect |-> connect,
     fetch_concurrency |-> fetch_concurrency,
     routing_max_size |-> 2, routing_max_age |-> PRUNE_INTERVAL]

\* Service::next, called by the driver until the outbox is empty; the
\* subscribers read the emitted events.
Drained(s) == [s EXCEPT !.outbox = <<>>, !.events = <<>>]

\* The Fetch intents of an outbox, as the tasks the worker pool runs.
FetchIntents(outbox) ==
    {[nid |-> outbox[i].nid, rid |-> outbox[i].rid] :
        i \in {j \in 1..Len(outbox) : outbox[j].type = "Fetch"}}

\* The results a worker reports through Service::fetched.
FetchResults(nid) ==
    {[ok |-> TRUE, updated |-> TRUE, timeout |-> FALSE, namespaces |-> {nid}],
     [ok |-> TRUE, updated |-> FALSE, timeout |-> FALSE, namespaces |-> {nid}],
     [ok |-> FALSE, updated |-> FALSE, timeout |-> TRUE, namespaces |-> {}],
     [ok |-> FALSE, updated |-> FALSE, timeout |-> FALSE, namespaces |-> {}]}

(***************************************************************************)
(* State                                                                   *)
(***************************************************************************)

VARIABLES
    service,    \* the Service of the local node
    inflight,   \* the fetch tasks handed to the worker pool, not yet reported
    issued,     \* the number of user responders created by Fetch commands
    ticks,      \* the number of clock advances left in the run
    event,      \* the entry point the driver called last, with its arguments
    journal,    \* the last calls, each with the filter and the tracked
                \* repositories it started from; holds up to journal.cap calls;
                \* with journal.routes, seen is the greatest timestamp each
                \* route held before the last call
                \* and with journal.pings, pinged is the time at which each
                \* session that awaits a Pong was first pinged
    nodes,      \* the services of a network of nodes
    chans,      \* the messages in flight on each link of the network
    links       \* the links of the network still to be established

vars == <<service, inflight, issued, ticks, event, journal, nodes, chans, links>>

netvars == <<nodes, chans, links>>

Event(op, nid, rid, arg) == [op |-> op, nid |-> nid, rid |-> rid, arg |-> arg]

\* The journal after a call ev made in state s.
Journal(s, ev) ==
    LET entry == [op |-> ev.op, rid |-> ev.rid, filter |-> s.filter,
                  tracked |-> TrackedRids(s.tracking)]
        log == Append(journal.log, entry)
        keys == DOMAIN journal.seen \cup DOMAIN s.routing
        held(k) == IF k \in DOMAIN s.routing THEN s.routing[k] ELSE 0
        past(k) == IF k \in DOMAIN journal.seen THEN journal.seen[k] ELSE 0
        awaiting == {n \in DOMAIN s.sessions :
                        /\ IsConnected(s.sessions[n])
                        /\ s.sessions[n].ping.state = "AwaitingResponse"}
    IN [journal EXCEPT !.log = IF Len(log) <= journal.cap THEN log
                                 ELSE IF journal.cap = 0 THEN <<>>
                                 ELSE SubSeq(log, Len(log) - journal.cap + 1, Len(log)),
                       !.seen = IF journal.routes
                                THEN [k \in keys |-> Max(held(k), past(k))]
                                ELSE <<>>,
                       !.pinged = IF journal.pings
                                  THEN [n \in awaiting |->
                                          IF n \in DOMAIN journal.pinged
                                          THEN journal.pinged[n] ELSE s.clock]
                                  ELSE <<>>]

\* The driver calls an entry point: the previous intents have been drained,
\* and the Fetch intents of the call go to the worker pool, which was
\* running `tasks`.
CallFrom(tasks, post, ev) ==
    /\ service' = post
    /\ inflight' = tasks \cup FetchIntents(post.outbox)
    /\ event' = ev
    /\ journal' = Journal(service, ev)

Call(post, ev) == CallFrom(inflight, post, ev)

(***************************************************************************)
(* Entry points of the service, as the driver calls them                   *)
(***************************************************************************)

\* Service::initialize, called once by the runtime before any other event.
InitializeEv ==
    /\ ~service.initialized
    /\ Call(Initialize(Drained(service), service.clock),
            Event("initialize", Nil, Nil, Nil))
    /\ UNCHANGED <<issued, ticks, netvars>>

\* Service::tick: the clock never goes back.
TickEv(delta) ==
    /\ service.initialized
    /\ ticks > 0
    /\ ticks' = ticks - 1
    /\ Call(Tick(Drained(service), service.clock + delta),
            Event("tick", Nil, Nil, Nil))
    /\ UNCHANGED <<issued, netvars>>

\* Service::wake
WakeEv(ponglen) ==
    /\ service.initialized
    /\ Call(Wake(Drained(service), ponglen), Event("wake", Nil, Nil, Nil))
    /\ UNCHANGED <<issued, ticks, netvars>>

\* Service::command(Command::Connect)
CmdConnect(nid) ==
    /\ service.initialized
    /\ Call(CommandConnect(Drained(service), nid), Event("connect", nid, Nil, Nil))
    /\ UNCHANGED <<issued, ticks, netvars>>

\* Service::command(Command::Disconnect)
CmdDisconnect(nid) ==
    /\ service.initialized
    /\ Call(CommandDisconnect(Drained(service), nid),
            Event("disconnect", nid, Nil, Nil))
    /\ UNCHANGED <<issued, ticks, netvars>>

\* Service::command(Command::Fetch), with a responder created for the call.
CmdFetch(rid, nid) ==
    /\ service.initialized
    /\ issued < MaxResponders
    /\ issued' = issued + 1
    /\ Call(CommandFetch(Drained(service), rid, nid, issued + 1),
            Event("fetch", nid, rid, Nil))
    /\ UNCHANGED <<ticks, netvars>>

\* Service::command(Command::TrackRepo)
CmdTrackRepo(rid, scope) ==
    /\ service.initialized
    /\ Call(CommandTrackRepo(Drained(service), rid, scope),
            Event("track_repo", Nil, rid, scope))
    /\ UNCHANGED <<issued, ticks, netvars>>

\* Service::command(Command::UntrackRepo)
CmdUntrackRepo(rid) ==
    /\ service.initialized
    /\ Call(CommandUntrackRepo(Drained(service), rid),
            Event("untrack_repo", Nil, rid, Nil))
    /\ UNCHANGED <<issued, ticks, netvars>>

\* Service::command(Command::TrackNode)
CmdTrackNode(nid) ==
    /\ service.initialized
    /\ Call(CommandTrackNode(Drained(service), nid), Event("track_node", nid, Nil, Nil))
    /\ UNCHANGED <<issued, ticks, netvars>>

\* Service::command(Command::UntrackNode)
CmdUntrackNode(nid) ==
    /\ service.initialized
    /\ Call(CommandUntrackNode(Drained(service), nid),
            Event("untrack_node", nid, Nil, Nil))
    /\ UNCHANGED <<issued, ticks, netvars>>

\* Service::command(Command::AnnounceRefs)
CmdAnnounceRefs(rid) ==
    /\ service.initialized
    /\ Call(CommandAnnounceRefs(Drained(service), rid),
            Event("announce_refs", Nil, rid, Nil))
    /\ UNCHANGED <<issued, ticks, netvars>>

\* Service::command(Command::AnnounceInventory)
CmdAnnounceInventory ==
    /\ service.initialized
    /\ Call(CommandAnnounceInventory(Drained(service)),
            Event("announce_inventory", Nil, Nil, Nil))
    /\ UNCHANGED <<issued, ticks, netvars>>

\* Service::command(Command::SyncInventory)
CmdSyncInventory ==
    /\ service.initialized
    /\ Call(CommandSyncInventory(Drained(service)),
            Event("sync_inventory", Nil, Nil, Nil))
    /\ UNCHANGED <<issued, ticks, netvars>>

\* Service::attempted: the transport dialled a peer of a Connect intent.
AttemptedEv(nid) ==
    /\ service.initialized
    /\ nid \in DOMAIN service.sessions
    /\ service.sessions[nid].state = "Initial"
    /\ Call(Attempted(Drained(service), nid), Event("attempted", nid, Nil, Nil))
    /\ UNCHANGED <<issued, ticks, netvars>>

\* Service::connected: an attempted outbound connection was established, or
\* a peer that authenticated as `nid` connected to us.
ConnectedEv(nid, link) ==
    /\ service.initialized
    /\ link = "outbound" =>
          /\ nid \in DOMAIN service.sessions
          /\ service.sessions[nid].state = "Attempted"
    /\ Call(Connected(Drained(service), nid, link), Event("connected", nid, Nil, link))
    /\ UNCHANGED <<issued, ticks, netvars>>

\* Service::disconnected: the transport closed the connection of a session.
DisconnectedEv(nid) ==
    /\ service.initialized
    /\ nid \in DOMAIN service.sessions
    /\ ~IsDisconnected(service.sessions[nid])
    /\ Call(Disconnected(Drained(service), nid), Event("disconnected", nid, Nil, Nil))
    /\ UNCHANGED <<issued, ticks, netvars>>

\* Service::fetched: a worker reports the outcome of a fetch task. A
\* successful fetch has written the repository to storage.
FetchedEv(task, result) ==
    /\ service.initialized
    /\ task \in inflight
    /\ LET pre == [Drained(service) EXCEPT
                     !.storage = IF result.ok THEN @ \cup {task.rid} ELSE @]
           post == Fetched(pre, task.rid, task.nid, result)
       IN CallFrom(inflight \ {task}, post,
                   Event("fetched", task.nid, task.rid, result))
    /\ UNCHANGED <<issued, ticks, netvars>>

\* Service::received_message
ReceivedEv(nid, message) ==
    /\ service.initialized
    /\ nid \in DOMAIN service.sessions
    /\ Call(ReceivedMessage(Drained(service), nid, message),
            Event("received_message", nid, message.type, message))
    /\ UNCHANGED <<issued, ticks, netvars>>

(***************************************************************************)
(* The fetch pipeline: a node that tracks r1 (scope All) and r2 (scope     *)
(* Trusted), with sessions, user fetches, announcement-triggered fetches   *)
(* and the fetches of the sync task.                                       *)
(***************************************************************************)

NoNetwork == nodes = <<>> /\ chans = <<>> /\ links = <<>>

InitFetch ==
    /\ \E fc \in 1..MaxFetchConcurrency, connect \in {{}, {"B"}} :
         service = New(LocalId, Config("Block", connect, fc), StartTime, <<>>, {},
                       <<>>,
                       [r \in {"r1", "r2"} |->
                          [policy |-> "Track",
                           scope |-> IF r = "r1" THEN "All" ELSE "Trusted"]],
                       {}, [timestamp |-> StartTime, seed |-> TRUE])
    /\ inflight = {}
    /\ issued = 0
    /\ ticks = 0
    /\ event = Event("new", Nil, Nil, Nil)
    /\ journal = [cap |-> 0, log |-> <<>>, routes |-> FALSE, seen |-> <<>>,
               pings |-> FALSE, pinged |-> <<>>]
    /\ NoNetwork

\* The refs announcements a peer sends about its own copy of a repository.
RefsFrom(nid, s) ==
    {RefsAnnouncement(nid, s.clock, rid, {[id |-> nid, valid |-> TRUE]}, TRUE) :
        rid \in {"r1"}}

\* The peer the fetches of this specification go to.
FetchPeers == {"B"}

NextFetch ==
    \/ InitializeEv
    \/ \E ponglen \in {0} : WakeEv(ponglen)
    \/ \E nid \in FetchPeers : AttemptedEv(nid)
    \/ \E nid \in FetchPeers, link \in {"inbound", "outbound"} : ConnectedEv(nid, link)
    \/ \E nid \in FetchPeers : DisconnectedEv(nid)
    \/ \E rid \in Rids, nid \in FetchPeers : CmdFetch(rid, nid)
    \/ \E task \in inflight : \E result \in FetchResults(task.nid) :
          FetchedEv(task, result)
    \/ \E nid \in FetchPeers : \E message \in RefsFrom(nid, service) :
          ReceivedEv(nid, message)

SpecFetch == InitFetch /\ [][NextFetch]_vars

\* The positions of the Fetch intents of the outbox.
FetchIntentsAt(outbox) == {i \in 1..Len(outbox) : outbox[i].type = "Fetch"}

\* C2: in every reachable state every session has at most fetch_concurrency
\* repositories in its in-progress set, and every Fetch intent a call
\* produced is for a repository that holds a slot of that set on a connected
\* session and is not waiting in the queue: a request beyond the limit is
\* queued and produces no intent.
C2_FetchConcurrency ==
    /\ \A n \in DOMAIN service.sessions :
          Cardinality(service.sessions[n].fetching)
            <= service.config.fetch_concurrency
    /\ \A i \in FetchIntentsAt(service.outbox) :
          LET io == service.outbox[i] IN
          /\ io.nid \in DOMAIN service.sessions
          /\ IsConnected(service.sessions[io.nid])
          /\ io.rid \in service.sessions[io.nid].fetching
          /\ ~SeqContains(service.sessions[io.nid].queue, io.rid)

\* A Fetch command arrived while every slot of the session was taken: the
\* repository is queued and the call produced no Fetch intent.
C2_Witness ==
    /\ event.op = "fetch"
    /\ event.nid \in DOMAIN service.sessions
    /\ Cardinality(service.sessions[event.nid].fetching)
         = service.config.fetch_concurrency
    /\ SeqContains(service.sessions[event.nid].queue, event.rid)
    /\ FetchIntentsAt(service.outbox) = {}

\* The keys of fetch_reqs registered for a peer.
PendingFor(s, nid) == {k \in DOMAIN s.fetch_reqs : k[2] = nid}

\* C4: when disconnected(peer) is processed, every responder pending in
\* fetch_reqs under a key (rid, peer) receives exactly one Failed response,
\* whether its fetch is in progress or queued, and no entry keyed by the peer
\* remains in fetch_reqs.
C4_DisconnectFailsPending ==
    [][event'.op = "disconnected" =>
         /\ \A k \in PendingFor(service, event'.nid) :
               service'.replies[service.fetch_reqs[k]]
                 = Append(service.replies[service.fetch_reqs[k]], "Failed")
         /\ PendingFor(service', event'.nid) = {}]_vars

\* C5: every responder of a Fetch command is notified exactly once. A
\* responder that has no result yet is still registered in fetch_reqs (it is
\* never replaced or dropped without a result), and no responder is sent
\* two results.
C5_ResponderNotifiedOnce ==
    \A r \in 1..issued :
       /\ Len(service.replies[r]) <= 1
       /\ Len(service.replies[r]) = 0 => r \in Range(service.fetch_reqs)

(***************************************************************************)
(* The fetch pipeline with the scheduling of the worker pool: every fetch  *)
(* task handed to a worker is eventually reported through fetched.         *)
(***************************************************************************)

FetchTasks == {[nid |-> nid, rid |-> rid] : nid \in FetchPeers, rid \in Rids}

SpecFetchFair ==
    /\ SpecFetch
    /\ \A task \in FetchTasks :
          WF_vars(\E result \in FetchResults(task.nid) : FetchedEv(task, result))

\* A Fetch intent for the repository has been handed to the worker pool.
Initiated(nid, rid) == [nid |-> nid, rid |-> rid] \in inflight

\* The repository waits in the queue of the connected session of the peer.
Queued(nid, rid) ==
    /\ nid \in DOMAIN service.sessions
    /\ IsConnected(service.sessions[nid])
    /\ SeqContains(service.sessions[nid].queue, rid)

InitialTracking ==
    {<<>>,
     [r \in {"r1"} |-> [policy |-> "Track", scope |-> "All"]],
     [r \in {"r1", "r2"} |->
        [policy |-> IF r = "r1" THEN "Block" ELSE "Track", scope |-> "Trusted"]]}

InitTrack ==
    /\ \E policy \in {"Block", "Track"}, tracking \in InitialTracking,
          storage \in {{}, {"r3"}} :
         service = New(LocalId, Config(policy, {}, 1), StartTime, <<>>, storage,
                       <<>>, tracking, {},
                       [timestamp |-> StartTime, seed |-> TRUE])
    /\ inflight = {}
    /\ issued = 0
    /\ ticks = 0
    /\ event = Event("new", Nil, Nil, Nil)
    /\ journal = [cap |-> 2, log |-> <<>>, routes |-> FALSE, seen |-> <<>>,
               pings |-> FALSE, pinged |-> <<>>]
    /\ NoNetwork

NextTrack ==
    \/ InitializeEv
    \/ \E rid \in Rids, scope \in {"All", "Trusted"} : CmdTrackRepo(rid, scope)
    \/ \E rid \in Rids : CmdUntrackRepo(rid)
    \/ \E nid \in {"B"} : CmdTrackNode(nid)
    \/ \E nid \in Peers : ConnectedEv(nid, "inbound")

SpecTrack == InitTrack /\ [][NextTrack]_vars

\* C9: after initialize, whatever track_repo and untrack_repo calls were
\* made, the subscription filter read as a set holds exactly the repositories
\* whose tracking policy is track, and it holds r right after track_repo(r).
C9_FilterIsTrackedSet ==
    service.initialized =>
       /\ service.filter = TrackedRids(service.tracking)
       /\ event.op = "track_repo" => FilterContains(service.filter, event.rid)

\* A repository was tracked and then one was untracked, which rebuilt the
\* filter to a different, non-empty set.
C9_Witness ==
    /\ Len(journal.log) = 2
    /\ journal.log[1].op = "track_repo"
    /\ journal.log[2].op = "untrack_repo"
    /\ service.filter # {}
    /\ service.filter # journal.log[2].filter

\* track_repo(r) was called and untrack_repo(r) right after it.
TrackThenUntrack ==
    /\ Len(journal.log) = 2
    /\ journal.log[1].op = "track_repo"
    /\ journal.log[2].op = "untrack_repo"
    /\ journal.log[1].rid = journal.log[2].rid

\* C10 as stated: for any r and any prior tracking state, track_repo(r)
\* followed by untrack_repo(r) leaves the filter equal to the filter that
\* existed before the track_repo.
C10_TrackUntrackRestoresFilter ==
    TrackThenUntrack => service.filter = journal.log[1].filter

\* C10 amended: after initialize, for any r whose policy was not track
\* before, track_repo(r) followed by untrack_repo(r) leaves the filter equal
\* to the filter that existed before the track_repo.
C10_TrackUntrackRestoresFilterOfUntracked ==
    (TrackThenUntrack /\ journal.log[1].rid \notin journal.log[1].tracked)
       => service.filter = journal.log[1].filter

\* An untracked repository was tracked and untracked again while another
\* repository stayed in the filter.
C10_Witness ==
    /\ TrackThenUntrack
    /\ journal.log[1].rid \notin journal.log[1].tracked
    /\ journal.log[2].filter # journal.log[1].filter
    /\ service.filter # {}

(***************************************************************************)
(* Gossip: a node that holds and tracks r1 with peers that send it         *)
(* announcements of every variant, their own and relayed ones, with        *)
(* timestamps around the local clock.                                      *)
(***************************************************************************)

InitGossip ==
    /\ service = New(LocalId, Config("Block", {}, 1), StartTime, <<>>, {"r1"}, <<>>,
                     [r \in {"r1"} |-> [policy |-> "Track", scope |-> "All"]], {},
                     [timestamp |-> StartTime, seed |-> TRUE])
    /\ inflight = {}
    /\ issued = 0
    /\ ticks = 0
    /\ event = Event("new", Nil, Nil, Nil)
    /\ journal = [cap |-> 0, log |-> <<>>, routes |-> FALSE, seen |-> <<>>,
               pings |-> FALSE, pinged |-> <<>>]
    /\ NoNetwork

\* The timestamps of the announcements a peer sends: the local clock, the
\* furthest acceptable future, and the first timestamp beyond it. An
\* announcement signed by the local node carries a time of its own clock.
Timestamps(s, announcer) ==
    IF announcer = s.id THEN {s.clock}
    ELSE {s.clock, s.clock + MAX_TIME_DELTA, s.clock + MAX_TIME_DELTA + 1}

\* The nodes whose announcements the peers send.
Announcers == {LocalId, "B"}

\* The messages a peer sends.
GossipMessages(s) ==
    UNION {
      {InventoryAnnouncement(a, ts, inv) : inv \in {<<>>, <<"r2">>}}
        \cup {NodeAnnouncement(a, ts, TRUE)}
        \cup {RefsAnnouncement(a, ts, "r1", {[id |-> a, valid |-> TRUE]}, FALSE)}
        \cup {Announcement(a, "Node", ts, FALSE, <<>>, Nil, {}, FALSE, TRUE)}
      : <<a, ts>> \in {<<n, x>> \in Announcers \X Timestamps(s, "B") :
                         x \in Timestamps(s, n)}}
      \cup {Subscribe(FilterDefault, 0, TimestampMax)}

NextGossip ==
    \/ InitializeEv
    \/ \E nid \in Peers : ConnectedEv(nid, "inbound")
    \/ \E nid \in Peers : DisconnectedEv(nid)
    \/ \E nid \in Peers : \E message \in GossipMessages(service) :
          ReceivedEv(nid, message)

SpecGossip == InitGossip /\ [][NextGossip]_vars

\* The announcement the gossip log holds for the announcer and the variant
\* of ann, as a sequence of at most one announcement.
Stored(gossip, ann) ==
    IF ann.node \notin DOMAIN gossip THEN <<>>
    ELSE IF ann.kind = "Inventory" THEN gossip[ann.node].last_inventory
    ELSE IF ann.kind = "Node" THEN gossip[ann.node].last_node
    ELSE IF ann.rid \in DOMAIN gossip[ann.node].last_refs
         THEN <<gossip[ann.node].last_refs[ann.rid]>>
    ELSE <<>>

\* The positions of the outbox that write the message to some peer.
WritesOf(outbox, msg) ==
    {i \in 1..Len(outbox) : outbox[i].type = "Write" /\ outbox[i].msg = msg}

\* The positions of the outbox that disconnect the peer for the reason.
DisconnectsOf(outbox, nid, reason) ==
    {i \in 1..Len(outbox) :
        outbox[i].type = "Disconnect" /\ outbox[i].nid = nid
          /\ outbox[i].reason = reason}

\* An announcement was received in the step.
ReceivedAnnouncement ==
    event'.op = "received_message" /\ event'.rid = "Announcement"

\* C6: the gossip log accepts an announcement only if its timestamp strictly
\* exceeds the one stored for its announcer and variant. An announcement
\* with a timestamp at or below the stored one leaves the gossip log
\* unchanged and is not relayed, and the stored record of a variant is only
\* ever replaced by the received announcement with a greater timestamp.
C6_StaleAnnouncementIgnored ==
    [][ReceivedAnnouncement =>
         LET ann == event'.arg
             before == Stored(service.gossip, ann)
             after == Stored(service'.gossip, ann)
         IN /\ (before # <<>> /\ ann.timestamp <= before[1].timestamp) =>
                  /\ service'.gossip = service.gossip
                  /\ WritesOf(service'.outbox, ann) = {}
            /\ after # before =>
                  /\ after = <<ann>>
                  /\ before # <<>> => ann.timestamp > before[1].timestamp]_vars

\* An announcement was dropped as stale while a peer that would have been
\* relayed to was connected: the log holds an inventory of B newer than the
\* one just received from B, and C is connected.
C6_Witness ==
    /\ event.op = "received_message"
    /\ event.rid = "Announcement"
    /\ event.arg.kind = "Inventory"
    /\ event.arg.valid
    /\ event.arg.node = "B"
    /\ event.nid = "B"
    /\ SessionsIsConnected(service, "B")
    /\ SessionsIsConnected(service, "C")
    /\ service.gossip["B"].last_inventory # <<>>
    /\ service.gossip["B"].last_inventory[1].timestamp > event.arg.timestamp
    /\ service.gossip["B"].last_inventory[1].inventory # event.arg.inventory

\* The announcements the gossip log holds, per announcer.
Recorded(gossip) ==
    [a \in {n \in DOMAIN gossip : gossip[n] # NodeDefault} |-> gossip[a]]

C7_WitnessAccepted ==
    /\ event.op = "received_message"
    /\ event.rid = "Announcement"
    /\ event.arg.timestamp = service.clock + MAX_TIME_DELTA
    /\ Stored(service.gossip, event.arg) = <<event.arg>>
    /\ WritesOf(service.outbox, event.arg) # {}

(***************************************************************************)
(* Sessions: the ways a session is created. The node is configured with    *)
(* peers to connect to, knows an address from its address book, is told to *)
(* connect by the user, and accepts inbound connections from whoever       *)
(* authenticates with a node id.                                           *)
(***************************************************************************)

InitSessions ==
    /\ \E connect \in {{}, {"B"}, {LocalId, "B"}} :
         service = New(LocalId, Config("Block", connect, 1), StartTime, <<>>, {},
                       [n \in {"C"} |-> [timestamp |-> 0, last_attempt |-> 0,
                                         last_success |-> 0]],
                       <<>>, {}, [timestamp |-> StartTime, seed |-> TRUE])
    /\ inflight = {}
    /\ issued = 0
    /\ ticks = 0
    /\ event = Event("new", Nil, Nil, Nil)
    /\ journal = [cap |-> 0, log |-> <<>>, routes |-> FALSE, seen |-> <<>>,
               pings |-> FALSE, pinged |-> <<>>]
    /\ NoNetwork

NextSessions ==
    \/ InitializeEv
    \/ \E ponglen \in {0} : WakeEv(ponglen)
    \/ \E nid \in NodeIds : CmdConnect(nid)
    \/ \E nid \in NodeIds : AttemptedEv(nid)
    \/ \E nid \in NodeIds, link \in {"inbound", "outbound"} : ConnectedEv(nid, link)
    \/ \E nid \in NodeIds : DisconnectedEv(nid)

SpecSessions == InitSessions /\ [][NextSessions]_vars

\* C8: in every reachable state the session table holds no session keyed by
\* the id of the local node, whichever way sessions are created.
C8_NoSessionWithSelf == service.id \notin DOMAIN service.sessions

(***************************************************************************)
(* A network of nodes, each running the service and holding one            *)
(* repository of its own, with relay enabled. The links of a topology are  *)
(* dialled, the transport carries the Write intents of each node to its    *)
(* peer in order, and every node handles what it receives.                 *)
(***************************************************************************)

\* The repository each node holds.
RepoOf(n) == IF n = "A" THEN "r1" ELSE IF n = "B" THEN "r2" ELSE "r3"

\* The clock of each node: the clocks of the nodes differ by less than the
\* time an announcement may lie in the future.
ClockOf(n) == StartTime + (IF n = "A" THEN 0 ELSE IF n = "B" THEN 1 ELSE 2)

\* The topologies, as the dials (dialler, listener) that build them, in the
\* order the nodes are told to connect.
Topologies ==
    [pair   |-> << <<"A", "B">> >>,
     bridge |-> << <<"A", "B">>, <<"B", "C">> >>,
     ring   |-> << <<"A", "B">>, <<"B", "C">>, <<"C", "A">> >>,
     star   |-> << <<"B", "A">>, <<"C", "A">> >>]

\* The nodes of a sequence of dials.
Members(dials) == {d[1] : d \in Range(dials)} \cup {d[2] : d \in Range(dials)}

Channels == {<<a, b>> \in NodeIds \X NodeIds : a # b}

InitNet ==
    /\ nodes = [n \in NodeIds |->
                  New(n, Config("Block", {}, 1), ClockOf(n), <<>>, {RepoOf(n)}, <<>>,
                      <<>>, {}, [timestamp |-> ClockOf(n), seed |-> TRUE])]
    /\ chans = [c \in Channels |-> <<>>]
    /\ \E name \in DOMAIN Topologies : links = Topologies[name]
    /\ service = New(LocalId, Config("Block", {}, 1), StartTime, <<>>, {}, <<>>,
                     <<>>, {}, [timestamp |-> StartTime, seed |-> TRUE])
    /\ inflight = {}
    /\ issued = 0
    /\ ticks = 0
    /\ event = Event("new", Nil, Nil, Nil)
    /\ journal = [cap |-> 0, log |-> <<>>, routes |-> FALSE, seen |-> <<>>,
               pings |-> FALSE, pinged |-> <<>>]

\* The channels after the transport took the Write intents of node n.
RECURSIVE Sent(_, _, _)
Sent(ch, n, outbox) ==
    IF outbox = <<>> THEN ch
    ELSE LET io == Head(outbox) IN
         Sent(IF io.type = "Write"
              THEN [ch EXCEPT ![<<n, io.nid>>] = Append(@, io.msg)] ELSE ch,
              n, Tail(outbox))

\* The intents of an outbox that close a connection.
Disconnects(outbox) == SelectSeq(outbox, LAMBDA io : io.type = "Disconnect")

\* Node n made a call that left it in state post: the transport takes its
\* Write intents; its Disconnect intents stay to be seen.
NetCall(n, ch, post) ==
    /\ nodes' = [nodes EXCEPT ![n] = [Drained(post) EXCEPT
                                        !.outbox = Disconnects(post.outbox)]]
    /\ chans' = Sent(ch, n, post.outbox)
    /\ UNCHANGED <<service, inflight, issued, ticks, event, journal>>

NetInitialize(n) ==
    /\ n \in Members(links)
    /\ ~nodes[n].initialized
    /\ NetCall(n, chans, Initialize(Drained(nodes[n]), nodes[n].clock))
    /\ UNCHANGED links

\* The connection of a dial is established on both of its ends.
LinkEstablished(d) ==
    /\ SessionsIsConnected(nodes[d[1]], d[2])
    /\ SessionsIsConnected(nodes[d[2]], d[1])

\* The user of node a tells it to connect to b, once every node is running
\* and the connections asked for before are established. The connection
\* that closes a cycle is asked for once the messages of the earlier ones
\* have been delivered.
NetConnect(a, b) ==
    /\ \E i \in 1..Len(links) :
          /\ links[i] = <<a, b>>
          /\ \A j \in 1..(i - 1) : LinkEstablished(links[j])
          /\ i > 2 => \A c \in Channels : chans[c] = <<>>
    /\ \A n \in Members(links) : nodes[n].initialized
    /\ b \notin DOMAIN nodes[a].sessions
    /\ NetCall(a, chans, CommandConnect(Drained(nodes[a]), b))
    /\ UNCHANGED links

NetAttempted(a, b) ==
    /\ <<a, b>> \in Range(links)
    /\ b \in DOMAIN nodes[a].sessions
    /\ nodes[a].sessions[b].state = "Initial"
    /\ NetCall(a, chans, Attempted(Drained(nodes[a]), b))
    /\ UNCHANGED links

\* The connection a dialled is established, as a sees it.
NetConnectedOutbound(a, b) ==
    /\ <<a, b>> \in Range(links)
    /\ b \in DOMAIN nodes[a].sessions
    /\ nodes[a].sessions[b].state = "Attempted"
    /\ NetCall(a, chans, Connected(Drained(nodes[a]), b, "outbound"))
    /\ UNCHANGED links

\* The connection a dialled is established, as b sees it.
NetConnectedInbound(a, b) ==
    /\ <<a, b>> \in Range(links)
    /\ b \in DOMAIN nodes[a].sessions
    /\ nodes[a].sessions[b].state \in {"Attempted", "Connected"}
    /\ a \notin DOMAIN nodes[b].sessions
    /\ NetCall(b, chans, Connected(Drained(nodes[b]), a, "inbound"))
    /\ UNCHANGED links

\* The transport delivers to b the next message a wrote to it; b has seen
\* the connection established before any message of it.
NetDeliver(a, b) ==
    /\ chans[<<a, b>>] # <<>>
    /\ SessionsIsConnected(nodes[b], a)
    /\ NetCall(b, [chans EXCEPT ![<<a, b>>] = Tail(@)],
               ReceivedMessage(Drained(nodes[b]), a, Head(chans[<<a, b>>])))
    /\ UNCHANGED links

NextNet ==
    \/ \E n \in NodeIds : NetInitialize(n)
    \/ \E a, b \in NodeIds : NetConnect(a, b)
    \/ \E a, b \in NodeIds : NetAttempted(a, b)
    \/ \E a, b \in NodeIds : NetConnectedOutbound(a, b)
    \/ \E a, b \in NodeIds : NetConnectedInbound(a, b)
    \/ \E a, b \in NodeIds : a # b /\ NetDeliver(a, b)

SpecNet == InitNet /\ [][NextNet]_vars

\* Every link is established on both of its ends.
Established == \A d \in Range(links) : LinkEstablished(d)

\* The links are established and every message written has been delivered.
Quiescent == Established /\ \A c \in Channels : chans[c] = <<>>

\* Every node routes the repository of every node to its owner.
Converged ==
    \A n \in Members(links), owner \in Members(links) :
       <<RepoOf(owner), owner>> \in DOMAIN nodes[n].routing

NetNoDisconnect == \A n \in NodeIds : nodes[n].outbox = <<>>

(***************************************************************************)
(* Routing: a node that holds and tracks r1, with a peer that announces    *)
(* its inventory and its refs with timestamps around the local clock,      *)
(* while the clock advances past routing_max_age and the periodic tasks    *)
(* run.                                                                    *)
(***************************************************************************)

InitRouting ==
    /\ service = New(LocalId, Config("Block", {}, 1), StartTime, <<>>, {"r1"}, <<>>,
                     [r \in {"r1"} |-> [policy |-> "Track", scope |-> "All"]], {},
                     [timestamp |-> StartTime, seed |-> TRUE])
    /\ inflight = {}
    /\ issued = 0
    /\ ticks = MaxTicks
    /\ event = Event("new", Nil, Nil, Nil)
    /\ journal = [cap |-> 0, log |-> <<>>, routes |-> TRUE, seen |-> <<>>,
               pings |-> FALSE, pinged |-> <<>>]
    /\ NoNetwork

\* The inventory and refs announcements a peer sends about its own
\* repositories, stamped just before, at and just after the local clock.
RoutingMessages(nid, s) ==
    UNION {
      {InventoryAnnouncement(nid, ts, inv) : inv \in {<<>>, <<"r2">>, <<"r2", "r3">>}}
        \cup {RefsAnnouncement(nid, ts, "r2", {[id |-> nid, valid |-> TRUE]}, FALSE)}
      : ts \in {s.clock - 1, s.clock, s.clock + 1}}

\* The peer that announces.
RoutingPeers == {"B"}

NextRouting ==
    \/ InitializeEv
    \/ \E nid \in RoutingPeers : ConnectedEv(nid, "inbound")
    \/ \E nid \in RoutingPeers : \E message \in RoutingMessages(nid, service) :
          ReceivedEv(nid, message)
    \/ \E delta \in {service.config.routing_max_age + 1} : TickEv(delta)
    \/ \E ponglen \in {0} : WakeEv(ponglen)
    \/ CmdSyncInventory

SpecRouting == InitRouting /\ [][NextRouting]_vars

\* C11: for every (repository, seed) pair of a peer, the timestamp the
\* routing table holds is never below a timestamp the table held for that
\* pair earlier, also when the entry was removed in between and inserted
\* again by a later announcement.
C11_RouteTimestampNeverDecreases ==
    \A k \in DOMAIN service.routing \cap DOMAIN journal.seen :
       k[2] \in Peers => service.routing[k] >= journal.seen[k]

\* C12: after initialize, every repository of the local storage has the
\* routing entry (rid, local node id).
C12_LocalInventoryRouted ==
    service.initialized =>
       \A rid \in service.storage : <<rid, service.id>> \in DOMAIN service.routing

(***************************************************************************)
(* Session lifecycle: disconnect, reconnection of persistent peers with    *)
(* back-off, and the handshake of an established connection.               *)
(***************************************************************************)

\* The intents of an outbox that equal io.
IntentsOf(outbox, io) == {i \in 1..Len(outbox) : outbox[i] = io}

InitBackoff ==
    /\ service = New(LocalId, Config("Block", {"B"}, 1), StartTime, <<>>, {}, <<>>,
                     <<>>, {}, [timestamp |-> StartTime, seed |-> TRUE])
    /\ inflight = {}
    /\ issued = 0
    /\ ticks = MaxBackoffTicks
    /\ event = Event("new", Nil, Nil, Nil)
    /\ journal = [cap |-> 0, log |-> <<>>, routes |-> FALSE, seen |-> <<>>,
               pings |-> FALSE, pinged |-> <<>>]
    /\ NoNetwork

\* The clock advances that end just before, or at, the retry time of a
\* disconnected session.
BackoffDeltas(s) ==
    UNION {{d \in {s.sessions[n].retry_at - s.clock - 1,
                   s.sessions[n].retry_at - s.clock} : d > 0}
           : n \in {x \in DOMAIN s.sessions : IsDisconnected(s.sessions[x])}}

NextBackoff ==
    \/ InitializeEv
    \/ \E nid \in {"B"} : AttemptedEv(nid)
    \/ \E nid \in {"B"}, link \in {"outbound"} : ConnectedEv(nid, link)
    \/ \E nid \in {"B"} : DisconnectedEv(nid)
    \/ \E delta \in BackoffDeltas(service) : TickEv(delta)
    \/ \E ponglen \in {0} : WakeEv(ponglen)

SpecBackoff == InitBackoff /\ [][NextBackoff]_vars

\* C14: for a persistent peer whose session is Disconnected, a wake at a
\* clock at or past retry_at moves the session to Initial and enqueues
\* Connect(peer); a wake before retry_at enqueues no Connect for the peer and
\* leaves the session as it is.
C14_WakeReconnectsAtRetry ==
    [][event'.op = "wake" =>
         \A n \in DOMAIN service.sessions :
            (IsPersistent(service, n) /\ IsDisconnected(service.sessions[n])) =>
               IF service.clock >= service.sessions[n].retry_at
               THEN /\ service'.sessions[n].state = "Initial"
                    /\ Cardinality(IntentsOf(service'.outbox, IoConnect(n))) = 1
               ELSE /\ service'.sessions[n] = service.sessions[n]
                    /\ IntentsOf(service'.outbox, IoConnect(n)) = {}]_vars

\* A wake at which no periodic task was due reconnected the peer.
C14_Witness ==
    /\ event.op = "wake"
    /\ "B" \in DOMAIN service.sessions
    /\ service.sessions["B"].state = "Initial"
    /\ service.sessions["B"].attempts > 0
    /\ service.outbox = <<IoConnect("B")>>

\* C15: the delay of a disconnect of a persistent peer is 2^attempts
\* seconds clamped to [MIN_RECONNECTION_DELTA, MAX_RECONNECTION_DELTA]: 3 s
\* up to one attempt, then doubling, 60 min from 12 attempts on, and 3 s
\* again when the session was connected, which reset the attempts.
C15_ReconnectDelayClamped ==
    [][(event'.op = "disconnected" /\ IsPersistent(service, event'.nid)) =>
         LET before == service.sessions[event'.nid]
             after == service'.sessions[event'.nid]
             delay == after.retry_at - after.since
             a == before.attempts
         IN /\ delay >= MIN_RECONNECTION_DELTA
            /\ delay <= MAX_RECONNECTION_DELTA
            /\ a <= 1 => delay = 3000
            /\ (a >= 2 /\ a <= 11) => delay = (2 ^ a) * 1000
            /\ a >= 12 => delay = 3600000
            /\ IsConnected(before) => delay = MIN_RECONNECTION_DELTA]_vars

\* After twelve failed attempts the delay has reached the maximum.
C15_Witness ==
    /\ event.op = "disconnected"
    /\ service.sessions[event.nid].attempts >= 12
    /\ service.sessions[event.nid].retry_at - service.sessions[event.nid].since
         = MAX_RECONNECTION_DELTA

(***************************************************************************)
(* Announcements and fetches: a node that tracks r1 with scope All and r2  *)
(* with scope Trusted and holds neither, with the peers B and C. B         *)
(* announces its inventory and its refs; the announcements arrive from B   *)
(* itself or relayed by C.                                                 *)
(***************************************************************************)

InitAnnounce ==
    /\ \E fc \in {MaxFetchConcurrency}, trusted \in {{}, {"B"}, {LocalId}} :
         service = New(LocalId, Config("Block", {}, fc), StartTime, <<>>, {}, <<>>,
                       [r \in {"r1", "r2"} |->
                          [policy |-> "Track",
                           scope |-> IF r = "r1" THEN "All" ELSE "Trusted"]],
                       trusted, [timestamp |-> StartTime, seed |-> TRUE])
    /\ inflight = {}
    /\ issued = 0
    /\ ticks = 0
    /\ event = Event("new", Nil, Nil, Nil)
    /\ journal = [cap |-> 0, log |-> <<>>, routes |-> FALSE, seen |-> <<>>,
               pings |-> FALSE, pinged |-> <<>>]
    /\ NoNetwork

\* The node whose announcements travel, and the peers that deliver them.
AnnounceAuthors == {"B"}

\* The announcements of an author: refs of r1 with the author's remote, refs
\* of r2 with the author's remote or the local node's, and its inventory.
AnnounceMessages(s) ==
    UNION {
      {RefsAnnouncement(a, ts, "r1", {[id |-> a, valid |-> TRUE]}, TRUE)}
        \cup {RefsAnnouncement(a, ts, "r2", {[id |-> remote, valid |-> TRUE]}, TRUE) :
                 remote \in {a, s.id}}
        \cup {InventoryAnnouncement(a, ts, <<"r1", "r2">>)}
      : <<a, ts>> \in AnnounceAuthors \X {s.clock, s.clock + 1}}

\* The outcomes the worker reports in these runs.
AnnounceResults(nid) ==
    {r \in FetchResults(nid) : ~r.timeout /\ (r.ok => r.updated)}

NextAnnounce ==
    \/ InitializeEv
    \/ \E nid \in Peers : ConnectedEv(nid, "inbound")
    \/ \E nid \in Peers : \E message \in AnnounceMessages(service) :
          ReceivedEv(nid, message)
    \/ \E task \in inflight : \E result \in AnnounceResults(task.nid) :
          FetchedEv(task, result)

SpecAnnounce == InitAnnounce /\ [][NextAnnounce]_vars

\* A well-formed announcement of the given kind was received on a Connected
\* session: it verifies, it is not the local node's own, and its timestamp
\* is not beyond the accepted future.
Handled(kind) ==
    /\ event'.op = "received_message"
    /\ event'.rid = "Announcement"
    /\ event'.arg.kind = kind
    /\ event'.arg.valid
    /\ \A theirs \in event'.arg.refs : theirs.valid
    /\ event'.arg.node # service.id
    /\ event'.arg.timestamp <= service.clock + MAX_TIME_DELTA
    /\ SessionsIsConnected(service, event'.nid)

\* The gossip log has no record of the announcement's variant at or past
\* its timestamp.
NewToLog(s, ann) ==
    LET before == Stored(s.gossip, ann) IN
    before = <<>> \/ ann.timestamp > before[1].timestamp

\* C16: a refs announcement for a repository tracked with scope Trusted,
\* none of whose remotes is a trusted node other than the local node (in
\* particular when there is no trusted node), enqueues no Fetch intent and
\* no Disconnect of the sender.
C16_UntrustedRefsNotFetched ==
    [][Handled("Refs") =>
         LET ann == event'.arg
             entry == RepoPolicy(service, ann.rid)
         IN (/\ entry.policy = "Track"
             /\ entry.scope = "Trusted"
             /\ \A theirs \in ann.refs :
                   theirs.id \notin service.trusted \ {service.id})
            => /\ FetchIntents(service'.outbox) = {}
               /\ \A reason \in {"Misbehavior", "InvalidTimestamp"} :
                     DisconnectsOf(service'.outbox, event'.nid, reason) = {}]_vars

\* The connected announcer's refs announcement for r2, tracked with scope
\* Trusted, was accepted by the gossip log while the node trusts nobody but
\* possibly itself among the announced remotes, and nothing was fetched.
C16_Witness ==
    /\ event.op = "received_message"
    /\ event.rid = "Announcement"
    /\ event.arg.kind = "Refs"
    /\ RepoPolicy(service, event.arg.rid).scope = "Trusted"
    /\ \A theirs \in event.arg.refs : theirs.id \notin service.trusted \ {service.id}
    /\ SessionsIsConnected(service, event.arg.node)
    /\ event.nid = event.arg.node
    /\ Stored(service.gossip, event.arg) = <<event.arg>>
    /\ service.sessions[event.nid].fetching = {}
    /\ service.outbox = <<>>

\* A refs announcement that the gossip log has not seen and that is fresh
\* for the storage was handled, for a repository tracked with scope All.
FreshRefsForAll ==
    /\ Handled("Refs")
    /\ NewToLog(service, event'.arg)
    /\ IsFresh(service, event'.arg)
    /\ RepoPolicy(service, event'.arg.rid) = [policy |-> "Track", scope |-> "All"]

\* The announcer's session is Connected and fewer than fetch_concurrency
\* repositories are being fetched from it.
FreeSlot(s, nid) ==
    /\ SessionsIsConnected(s, nid)
    /\ Cardinality(s.sessions[nid].fetching) < s.config.fetch_concurrency

\* No Fetch intent goes to a peer other than the announcer, and none at all
\* when the announcer has no Connected session.
FetchOnlyFromConnectedAnnouncer ==
    Handled("Refs") =>
        /\ \A f \in FetchIntents(service'.outbox) : f.nid = event'.arg.node
        /\ ~SessionsIsConnected(service, event'.arg.node)
              => FetchIntents(service'.outbox) = {}

\* The statement of C17 as written: a fresh refs announcement for a
\* repository tracked with scope All, whose announcer is Connected with a
\* free fetch slot, enqueues Fetch(announcer, rid, All).
C17_FreshRefsFetched ==
    [][/\ (FreshRefsForAll /\ FreeSlot(service, event'.arg.node))
            => \E i \in 1..Len(service'.outbox) :
                  service'.outbox[i] =
                    IoFetch(event'.arg.node, event'.arg.rid,
                            [kind |-> "All", nodes |-> {}])
       /\ FetchOnlyFromConnectedAnnouncer]_vars

\* C17: a fresh refs announcement for a repository tracked with scope All,
\* whose announcer is Connected with a free fetch slot and is not already
\* fetching that repository, enqueues Fetch(announcer, rid, All); without a
\* Connected session of the announcer no Fetch is enqueued, and a Fetch
\* never goes to the relayer.
C17_FreshRefsFetchedUnlessFetching ==
    [][/\ (/\ FreshRefsForAll
           /\ FreeSlot(service, event'.arg.node)
           /\ event'.arg.rid \notin service.sessions[event'.arg.node].fetching)
            => \E i \in 1..Len(service'.outbox) :
                  service'.outbox[i] =
                    IoFetch(event'.arg.node, event'.arg.rid,
                            [kind |-> "All", nodes |-> {}])
       /\ FetchOnlyFromConnectedAnnouncer]_vars

\* A refs announcement of r1 authored by B and relayed by C was handled
\* while both had Connected sessions, and the fetch went to B.
C17_Witness ==
    /\ event.op = "received_message"
    /\ event.rid = "Announcement"
    /\ event.arg.kind = "Refs"
    /\ event.arg.rid = "r1"
    /\ event.nid # event.arg.node
    /\ SessionsIsConnected(service, event.nid)
    /\ SessionsIsConnected(service, event.arg.node)
    /\ service.outbox = <<IoFetch(event.arg.node, "r1", [kind |-> "All", nodes |-> {}])>>

\* Whether the repository is on a session's way to being fetched: in
\* progress or waiting in the session's queue.
FetchUnderWay(s, nid, rid) ==
    /\ nid \in DOMAIN s.sessions
    /\ rid \in s.sessions[nid].fetching \/ SeqContains(s.sessions[nid].queue, rid)

\* C18: an inventory announcement the gossip log has not seen, authored by
\* a peer with a Connected session, leaves every announced repository that
\* is tracked and absent from storage being fetched from that peer, or
\* queued on its session.
C18_MissingInventoryFetched ==
    [][(/\ Handled("Inventory")
        /\ NewToLog(service, event'.arg)
        /\ SessionsIsConnected(service, event'.arg.node))
       => \A i \in 1..Len(event'.arg.inventory) :
            LET rid == event'.arg.inventory[i] IN
            (IsRepoTracked(service, rid) /\ rid \notin service.storage)
              => FetchUnderWay(service', event'.arg.node, rid)]_vars

\* C19: every connected event leaves exactly the three Write intents of the
\* handshake for the remote in the outbox, in the order NodeInfo, Inventory,
\* Subscribe(filter, now - SUBSCRIBE_BACKLOG_DELTA, max), and the session of
\* the remote in state Connected.
C19_ConnectedSendsHandshake ==
    [][event'.op = "connected" =>
         /\ service'.outbox = WriteAll(<<>>, event'.nid, Handshake(service))
         /\ SessionsIsConnected(service', event'.nid)]_vars

(***************************************************************************)
(* Relay: a relaying node with the configured peer C, which it dials, and  *)
(* the peer B, which connects to it. Sessions are in every state while B   *)
(* and C subscribe and send announcements of their own and of each other.  *)
(***************************************************************************)

InitRelay ==
    /\ service = New(LocalId, Config("Block", {"C"}, 1), StartTime, <<>>, {"r1"}, <<>>,
                     [r \in {"r1"} |-> [policy |-> "Track", scope |-> "All"]], {},
                     [timestamp |-> StartTime, seed |-> TRUE])
    /\ inflight = {}
    /\ issued = 0
    /\ ticks = 0
    /\ event = Event("new", Nil, Nil, Nil)
    /\ journal = [cap |-> 0, log |-> <<>>, routes |-> FALSE, seen |-> <<>>,
               pings |-> FALSE, pinged |-> <<>>]
    /\ NoNetwork

\* The messages the peers send: announcements of every variant authored by
\* B or C, and subscriptions to everything or to r2 only.
RelayMessages(s) ==
    UNION {
      {InventoryAnnouncement(a, ts, <<"r2">>),
       NodeAnnouncement(a, ts, TRUE),
       RefsAnnouncement(a, ts, "r1", {[id |-> a, valid |-> TRUE]}, FALSE)}
      : <<a, ts>> \in Peers \X {s.clock}}
      \cup {Subscribe(filter, 0, TimestampMax) : filter \in {FilterDefault, FilterNew({"r2"})}}

NextRelay ==
    \/ InitializeEv
    \/ AttemptedEv("C")
    \/ ConnectedEv("C", "outbound")
    \/ ConnectedEv("B", "inbound")
    \/ \E nid \in Peers : DisconnectedEv(nid)
    \/ \E nid \in Peers : \E message \in RelayMessages(service) :
          ReceivedEv(nid, message)

SpecRelay == InitRelay /\ [][NextRelay]_vars

\* The peers the outbox writes the message to.
WrittenTo(outbox, msg) == {outbox[i].nid : i \in WritesOf(outbox, msg)}

\* handle_announcement asks for the received announcement to be relayed.
Relayed ==
    /\ event'.op = "received_message"
    /\ event'.rid = "Announcement"
    /\ SessionsIsConnected(service, event'.nid)
    /\ HandleAnnouncement(Drained(service), event'.nid, event'.arg).result = "Relay"

\* The Connected sessions other than the sender and the announcer.
RelaySet == ConnectedPeers(service) \ {event'.nid, event'.arg.node}

\* The sessions that subscribed with a filter that matches the announcement.
Subscribed(ann) ==
    {n \in DOMAIN service.sessions :
        /\ service.sessions[n].subscribe # <<>>
        /\ Matches(ann, service.sessions[n].subscribe[1].filter)}

C20_WitnessNotConnected ==
    /\ event.op = "received_message"
    /\ event.rid = "Announcement"
    /\ event.nid = "B"
    /\ event.arg.node = "B"
    /\ Stored(service.gossip, event.arg) = <<event.arg>>
    /\ "C" \in DOMAIN service.sessions
    /\ ~SessionsIsConnected(service, "C")
    /\ service.outbox = <<>>

(***************************************************************************)
(* Received messages: connecting peers, signatures, loops and relay        *)
(***************************************************************************)

\* C21: a message received from a peer whose session is Initial or Attempted
\* enqueues a Disconnect intent for that peer and changes neither the
\* gossip log, nor the routing table, nor the address book.
C21_ConnectingPeerDisconnected ==
    [][(/\ event'.op = "received_message"
        /\ service.sessions[event'.nid].state \in {"Initial", "Attempted"})
       => /\ \E i \in 1..Len(service'.outbox) :
               /\ service'.outbox[i].type = "Disconnect"
               /\ service'.outbox[i].nid = event'.nid
          /\ service'.gossip = service.gossip
          /\ service'.routing = service.routing
          /\ service'.addresses = service.addresses]_vars

\* A node that tracks r1 and not r2, with relay enabled or not, that knows
\* an address of B from an earlier run and has the peers B and C. The peers
\* subscribe and send announcements authored by B or by the local node,
\* with valid and invalid signatures.
InitHandle ==
    /\ \E relay \in BOOLEAN :
         service = New(LocalId, [Config("Block", {}, 1) EXCEPT !.relay = relay],
                       StartTime, <<>>, {},
                       [n \in {"B"} |-> [timestamp |-> StartTime, last_attempt |-> 0,
                                         last_success |-> 0]],
                       [r \in {"r1"} |-> [policy |-> "Track", scope |-> "All"]], {},
                       [timestamp |-> StartTime, seed |-> TRUE])
    /\ inflight = {}
    /\ issued = 0
    /\ ticks = 0
    /\ event = Event("new", Nil, Nil, Nil)
    /\ journal = [cap |-> 0, log |-> <<>>, routes |-> FALSE, seen |-> <<>>,
               pings |-> FALSE, pinged |-> <<>>]
    /\ NoNetwork

\* The announcements of an author at a time, well signed: its inventory,
\* its node information and its refs of the tracked repository r1.
SignedBy(a, ts) ==
    {InventoryAnnouncement(a, ts, <<"r2">>),
     NodeAnnouncement(a, ts, TRUE),
     RefsAnnouncement(a, ts, "r1", {[id |-> a, valid |-> TRUE]}, TRUE)}

\* The messages the peers send: the announcements of B, then newer node
\* information of B with and without the seed feature and newer refs of r1,
\* and its refs of the untracked repository r2; the announcements of the
\* local node; refs of B and of the local node with a signed-refs entry that
\* does not verify; announcements of B whose signature does not verify; node
\* information of B whose alias cannot be read; and a subscription to
\* everything.
HandleMessages(s) ==
    SignedBy("B", s.clock)
      \cup {NodeAnnouncement("B", s.clock + 1, seed) : seed \in BOOLEAN}
      \cup {RefsAnnouncement("B", s.clock + 1, "r1", {[id |-> "B", valid |-> TRUE]}, TRUE),
            RefsAnnouncement("B", s.clock, "r2", {[id |-> "B", valid |-> TRUE]}, TRUE)}
      \cup SignedBy(s.id, s.clock)
      \cup {RefsAnnouncement(a, s.clock, "r1", {[id |-> a, valid |-> FALSE]}, TRUE) :
               a \in {"B", s.id}}
      \cup {[ann EXCEPT !.valid = FALSE] : ann \in SignedBy("B", s.clock)}
      \cup {[NodeAnnouncement("B", s.clock, seed) EXCEPT !.alias = FALSE] :
               seed \in BOOLEAN}
      \cup {Subscribe(FilterDefault, 0, TimestampMax)}

NextHandle ==
    \/ InitializeEv
    \/ \E nid \in Peers : ConnectedEv(nid, "inbound")
    \/ \E nid \in Peers : \E message \in HandleMessages(service) :
          ReceivedEv(nid, message)

SpecHandle == InitHandle /\ [][NextHandle]_vars

\* An announcement was received on a Connected session.
AnnouncementReceived ==
    /\ event'.op = "received_message"
    /\ event'.rid = "Announcement"
    /\ SessionsIsConnected(service, event'.nid)

\* The announcements the gossip log holds.
Logged(gossip) ==
    UNION {Range(NodeAnnouncements(gossip[n])) : n \in DOMAIN gossip}

\* The step leaves the gossip log, the routing table, the address book and
\* the fetches of every session as they were.
SharedStateKept ==
    /\ Logged(service'.gossip) = Logged(service.gossip)
    /\ service'.routing = service.routing
    /\ service'.addresses = service.addresses
    /\ DOMAIN service'.sessions = DOMAIN service.sessions
    /\ \A n \in DOMAIN service.sessions :
          /\ service'.sessions[n].fetching = service.sessions[n].fetching
          /\ service'.sessions[n].queue = service.sessions[n].queue

\* The sender is disconnected for Misbehavior and nothing else leaves the
\* node: no relay, no fetch.
OnlyMisbehavior ==
    service'.outbox = <<IoDisconnect(event'.nid, "Misbehavior")>>

\* The statement of C22 as written: an announcement whose signature, or any
\* of whose signed-refs entries, does not verify disconnects the sender for
\* Misbehavior and changes no shared state.
C22_BadSignatureMisbehaves ==
    [][(/\ AnnouncementReceived
        /\ \/ ~event'.arg.valid
           \/ \E theirs \in event'.arg.refs : ~theirs.valid)
       => OnlyMisbehavior /\ SharedStateKept]_vars

\* C22: an announcement whose signature does not verify, or a refs
\* announcement of another node, with a timestamp within the accepted
\* future, one of whose signed-refs entries does not verify, enqueues
\* Disconnect(sender, Misbehavior) and nothing else, and leaves the gossip
\* log, the routing table, the address book and the fetch queues unchanged.
C22_BadSignatureOfPeerMisbehaves ==
    [][(/\ AnnouncementReceived
        /\ \/ ~event'.arg.valid
           \/ /\ \E theirs \in event'.arg.refs : ~theirs.valid
              /\ event'.arg.node # service.id
              /\ event'.arg.timestamp <= service.clock + MAX_TIME_DELTA)
       => OnlyMisbehavior /\ SharedStateKept]_vars

\* A refs announcement of B with a signed-refs entry that does not verify
\* was received from B, which already had announcements in the log and a
\* route, and B is being disconnected for Misbehavior.
C22_Witness ==
    /\ event.op = "received_message"
    /\ event.rid = "Announcement"
    /\ event.arg.kind = "Refs"
    /\ event.arg.valid
    /\ \E theirs \in event.arg.refs : ~theirs.valid
    /\ event.arg.node = "B"
    /\ SessionsIsConnected(service, "C")
    /\ Logged(service.gossip) # {}
    /\ service.routing # <<>>
    /\ service.outbox = <<IoDisconnect(event.nid, "Misbehavior")>>

\* C23: a well-signed announcement authored by the local node and received
\* from a peer leaves the gossip log, the routing table, the address book
\* and the fetches unchanged and enqueues nothing: no fetch, no relay, no
\* Disconnect.
C23_OwnAnnouncementDropped ==
    [][(/\ AnnouncementReceived
        /\ event'.arg.valid
        /\ event'.arg.node = service.id)
       => /\ service'.outbox = <<>>
          /\ service'.gossip = service.gossip
          /\ SharedStateKept]_vars

\* The local node's refs of the tracked repository r1 came back from B
\* while C was connected and subscribed to everything, and nothing was
\* enqueued.
C23_Witness ==
    /\ event.op = "received_message"
    /\ event.rid = "Announcement"
    /\ event.arg.node = service.id
    /\ event.arg.kind = "Refs"
    /\ event.arg.valid
    /\ event.nid = "B"
    /\ SessionsIsConnected(service, "B")
    /\ SessionsIsConnected(service, "C")
    /\ service.sessions["C"].subscribe # <<>>
    /\ service.config.relay
    /\ service.outbox = <<>>

\* The Connected sessions a received announcement may be relayed to.
Recipients == ConnectedPeers(service) \ {event'.nid, event'.arg.node}

\* The statement of C29 as written: a node announcement without the seed
\* feature never changes the address book and, with relay enabled, is
\* relayed when and only when its timestamp is newer than the announcer's
\* last node announcement; one with the seed feature is relayed only when
\* the address book reports an update.
C29_NodeInfoStoredAndRelayed ==
    [][Handled("Node") =>
         LET ann == event'.arg
             written == WrittenTo(service'.outbox, ann)
         IN /\ ~ann.seed =>
                 /\ service'.addresses = service.addresses
                 /\ service.config.relay =>
                       written = IF NewToLog(service, ann) THEN Recipients ELSE {}
            /\ ann.seed =>
                 (written # {} =>
                    /\ AddressInsert(service.addresses, ann.node, ann.timestamp).updated
                    /\ service'.addresses =
                         AddressInsert(service.addresses, ann.node, ann.timestamp).addresses)]_vars

\* C29: a node announcement without the seed feature never changes the
\* address book and, with relay enabled and an alias that can be read, is
\* relayed when and only when its timestamp is newer than the announcer's
\* last node announcement; one with the seed feature is relayed only when
\* the address book reports an update; one whose alias cannot be read is
\* neither stored in the address book nor relayed.
C29_NodeInfoWithAliasStoredAndRelayed ==
    [][Handled("Node") =>
         LET ann == event'.arg
             written == WrittenTo(service'.outbox, ann)
         IN /\ ~ann.seed =>
                 /\ service'.addresses = service.addresses
                 /\ (service.config.relay /\ ann.alias) =>
                       written = IF NewToLog(service, ann) THEN Recipients ELSE {}
            /\ ann.seed =>
                 (written # {} =>
                    /\ AddressInsert(service.addresses, ann.node, ann.timestamp).updated
                    /\ service'.addresses =
                         AddressInsert(service.addresses, ann.node, ann.timestamp).addresses)
            /\ ~ann.alias =>
                 written = {} /\ service'.addresses = service.addresses]_vars

\* A fresh node announcement of B without the seed feature was relayed to C
\* and the address book holds what it held at the start.
C29_Witness ==
    /\ event.op = "received_message"
    /\ event.rid = "Announcement"
    /\ event.arg.kind = "Node"
    /\ ~event.arg.seed
    /\ event.nid = "B"
    /\ service.outbox = <<IoWrite("C", event.arg)>>
    /\ service.addresses["B"].timestamp = StartTime

\* A node announcement of B with the seed feature, new to the gossip log
\* but no news to the address book, was not relayed to the connected C.
C29_WitnessNotUpdated ==
    /\ event.op = "received_message"
    /\ event.rid = "Announcement"
    /\ event.arg.kind = "Node"
    /\ event.arg.seed
    /\ event.nid = "B"
    /\ Stored(service.gossip, event.arg) = <<event.arg>>
    /\ SessionsIsConnected(service, "C")
    /\ service.config.relay
    /\ service.outbox = <<>>

\* C30: with relay enabled, a refs announcement that passes the signature
\* checks and is newer than the announcer's last refs announcement for the
\* repository is written to the recipients whose subscription matches it,
\* whether the repository is tracked or not; with relay disabled no
\* received announcement is written to any peer.
C30_FreshRefsRelayed ==
    [][/\ (Handled("Refs") /\ NewToLog(service, event'.arg) /\ service.config.relay)
          => WrittenTo(service'.outbox, event'.arg)
               = Recipients \cap Subscribed(event'.arg)
       /\ (AnnouncementReceived /\ ~service.config.relay)
          => WrittenTo(service'.outbox, event'.arg) = {}]_vars

(***************************************************************************)
(* Keep-alive: a node with the peer B connected, whose clock advances by   *)
(* the idle interval or the keep-alive delta. The idle task pings the      *)
(* session when it has been silent; the peer sends pings, pongs and        *)
(* subscriptions.                                                          *)
(***************************************************************************)

InitPing ==
    /\ service = New(LocalId, Config("Block", {}, 1), StartTime, <<>>, {}, <<>>,
                     <<>>, {}, [timestamp |-> StartTime, seed |-> TRUE])
    /\ inflight = {}
    /\ issued = 0
    /\ ticks = MaxPingTicks
    /\ event = Event("new", Nil, Nil, Nil)
    /\ journal = [cap |-> 0, log |-> <<>>, routes |-> FALSE, seen |-> <<>>,
                  pings |-> TRUE, pinged |-> <<>>]
    /\ NoNetwork

\* The messages a peer sends: pings up to and beyond the greatest length
\* answered, pongs of the length asked for and of another, a subscription.
PingMessages ==
    {[type |-> "Ping", ponglen |-> n] : n \in 0..(MAX_PONG_ZEROES + 1)}
      \cup {[type |-> "Pong", zeroes |-> n] : n \in {0, 1}}
      \cup {Subscribe(FilterDefault, 0, TimestampMax)}

NextPing ==
    \/ InitializeEv
    \/ ConnectedEv("B", "inbound")
    \/ \E message \in PingMessages : ReceivedEv("B", message)
    \/ \E delta \in {IDLE_INTERVAL, KEEP_ALIVE_DELTA} : TickEv(delta)
    \/ WakeEv(1)

SpecPing == InitPing /\ [][NextPing]_vars

\* C24: a Ping received on a Connected session is answered with one Write
\* of a Pong of ponglen zero bytes when ponglen <= MAX_PONG_ZEROES, and
\* with nothing, not even a Disconnect, when it is longer.
C24_PingAnswered ==
    [][(/\ event'.op = "received_message"
        /\ event'.rid = "Ping"
        /\ SessionsIsConnected(service, event'.nid))
       => service'.outbox =
            IF event'.arg.ponglen <= MAX_PONG_ZEROES
            THEN <<IoWrite(event'.nid, [type |-> "Pong", zeroes |-> event'.arg.ponglen])>>
            ELSE <<>>]_vars

\* A Ping asking for more than MAX_PONG_ZEROES was received on a Connected
\* session and left the outbox empty.
C24_Witness ==
    /\ event.op = "received_message"
    /\ event.rid = "Ping"
    /\ event.arg.ponglen > MAX_PONG_ZEROES
    /\ SessionsIsConnected(service, event.nid)
    /\ service.sessions[event.nid].last_active = service.clock
    /\ service.outbox = <<>>

\* A Ping asking for MAX_PONG_ZEROES was answered.
C24_WitnessAnswered ==
    /\ event.op = "received_message"
    /\ event.rid = "Ping"
    /\ event.arg.ponglen = MAX_PONG_ZEROES
    /\ service.outbox = <<IoWrite(event.nid, [type |-> "Pong", zeroes |-> MAX_PONG_ZEROES])>>

\* C25: when the idle task runs, every Connected session that has awaited a
\* Pong for STALE_CONNECTION_TIMEOUT or longer gets Disconnect(Timeout),
\* whatever else the peer sent in the meantime, and no session that awaits
\* no Pong and was active less than STALE_CONNECTION_TIMEOUT ago gets one.
C25_UnansweredPingTimesOut ==
    [][(/\ event'.op = "wake"
        /\ service.clock - service.last_idle >= IDLE_INTERVAL)
       => \A n \in ConnectedPeers(service) :
            /\ (/\ n \in DOMAIN journal'.pinged
                /\ service.clock - journal'.pinged[n] >= STALE_CONNECTION_TIMEOUT)
               => DisconnectsOf(service'.outbox, n, "Timeout") # {}
            /\ (/\ n \notin DOMAIN journal'.pinged
                /\ service.clock - service.sessions[n].last_active
                     < STALE_CONNECTION_TIMEOUT)
               => DisconnectsOf(service'.outbox, n, "Timeout") = {}]_vars

(***************************************************************************)
(* Periodic tasks: a node without peers whose clock advances by one        *)
(* millisecond or to one millisecond before an interval, and that is woken *)
(* at any time.                                                            *)
(***************************************************************************)

InitWake ==
    /\ service = New(LocalId, Config("Block", {}, 1), StartTime, <<>>, {"r1"}, <<>>,
                     <<>>, {}, [timestamp |-> StartTime, seed |-> TRUE])
    /\ inflight = {}
    /\ issued = 0
    /\ ticks = MaxWakeTicks
    /\ event = Event("new", Nil, Nil, Nil)
    /\ journal = [cap |-> 0, log |-> <<>>, routes |-> FALSE, seen |-> <<>>,
                  pings |-> FALSE, pinged |-> <<>>]
    /\ NoNetwork

\* The periodic tasks: the field that holds the last run, and the interval.
Tasks ==
    {[last |-> "last_idle", interval |-> IDLE_INTERVAL],
     [last |-> "last_sync", interval |-> SYNC_INTERVAL],
     [last |-> "last_announce", interval |-> ANNOUNCE_INTERVAL],
     [last |-> "last_prune", interval |-> PRUNE_INTERVAL]}

\* The advances of the clock.
WakeDeltas == {1} \cup {task.interval - 1 : task \in Tasks}

NextWake ==
    \/ InitializeEv
    \/ \E delta \in WakeDeltas : TickEv(delta)
    \/ WakeEv(0)

SpecWake == InitWake /\ [][NextWake]_vars

\* The Wakeup intents of the outbox for the delay.
WakeupsOf(outbox, delay) ==
    {i \in 1..Len(outbox) : outbox[i] = IoWakeup(delay)}

\* C26: in a wake, each periodic task runs if and only if the clock is at
\* least its interval past its last run; a task that runs sets its last run
\* to the clock and enqueues one Wakeup of its interval, and a task that
\* does not run leaves its last run alone; and the clock never goes back.
C26_TasksRunAtIntervals ==
    [][/\ event'.op = "wake" =>
            \A task \in Tasks :
               IF service.clock - service[task.last] >= task.interval
               THEN /\ service'[task.last] = service.clock
                    /\ Cardinality(WakeupsOf(service'.outbox, task.interval)) = 1
               ELSE /\ service'[task.last] = service[task.last]
                    /\ WakeupsOf(service'.outbox, task.interval) = {}
       /\ service'.clock >= service.clock
       /\ \A task \in Tasks :
            service'[task.last] # service[task.last]
               => service'[task.last] - service[task.last] >= task.interval]_vars

\* A wake one idle interval after the last one ran the idle task only: the
\* sync task, which ran at the same time, was not due.
C26_Witness ==
    /\ event.op = "wake"
    /\ service.last_idle = service.clock
    /\ service.last_sync > 0
    /\ service.clock - service.last_sync = IDLE_INTERVAL
    /\ service.outbox = <<IoWakeup(IDLE_INTERVAL)>>

(***************************************************************************)
(* Pruning of the routing table, checked on the runs of SpecRouting        *)
(***************************************************************************)

\* The routes a step deletes.
Pruned == DOMAIN service.routing \ DOMAIN service'.routing

\* C27: a wake deletes no route while the table holds at most
\* routing_max_size entries; otherwise it deletes at most the excess over
\* routing_max_size, only entries with a timestamp before the clock minus
\* routing_max_age, and it changes no entry it keeps.
C27_PruneBounded ==
    [][event'.op = "wake" =>
         LET count == Cardinality(DOMAIN service.routing)
             max == service.config.routing_max_size
         IN /\ count <= max => Pruned = {}
            /\ count > max => Cardinality(Pruned) <= count - max
            /\ \A k \in Pruned :
                  service.routing[k] < service.clock - service.config.routing_max_age
            /\ Cardinality(DOMAIN service'.routing) >= Min(count, max)
            /\ \A k \in DOMAIN service'.routing :
                  k \in DOMAIN service.routing
                    /\ service'.routing[k] = service.routing[k]]_vars

\* The prune task found three routes in a table of at most two, one of
\* them younger than routing_max_age and two older, and deleted the oldest,
\* a route that no announcement removes.
C27_Witness ==
    /\ event.op = "wake"
    /\ service.last_prune = service.clock
    /\ Cardinality(DOMAIN service.routing) = service.config.routing_max_size
    /\ \E k \in DOMAIN service.routing :
          service.routing[k] >= service.clock - service.config.routing_max_age
    /\ \E k \in DOMAIN service.routing :
          service.routing[k] < service.clock - service.config.routing_max_age
    /\ <<"r1", service.id>> \in DOMAIN journal.seen \ DOMAIN service.routing

(***************************************************************************)
(* Subscriptions: a node with the peers B and C, which announce their      *)
(* inventories and their refs of r1 at two times and subscribe with        *)
(* filters and time windows that take in all, some or none of the log.     *)
(***************************************************************************)

InitSubscribe ==
    /\ service = New(LocalId, Config("Block", {}, 1), StartTime, <<>>, {}, <<>>,
                     <<>>, {}, [timestamp |-> StartTime, seed |-> TRUE])
    /\ inflight = {}
    /\ issued = 0
    /\ ticks = 0
    /\ event = Event("new", Nil, Nil, Nil)
    /\ journal = [cap |-> 0, log |-> <<>>, routes |-> FALSE, seen |-> <<>>,
                  pings |-> FALSE, pinged |-> <<>>]
    /\ NoNetwork

\* The messages the peers send.
SubscribeMessages(s) ==
    UNION {{InventoryAnnouncement(a, ts, <<"r2">>),
            RefsAnnouncement(a, ts, "r1", {[id |-> a, valid |-> TRUE]}, TRUE)}
           : <<a, ts>> \in Peers \X {s.clock, s.clock + 1}}
      \cup {Subscribe(FilterDefault, 0, TimestampMax),
            Subscribe(FilterDefault, 0, s.clock + 1),
            Subscribe(FilterNew({"r2"}), s.clock + 1, TimestampMax)}

NextSubscribe ==
    \/ InitializeEv
    \/ \E nid \in Peers : ConnectedEv(nid, "inbound")
    \/ \E nid \in Peers : \E message \in SubscribeMessages(service) :
          ReceivedEv(nid, message)

SpecSubscribe == InitSubscribe /\ [][NextSubscribe]_vars

\* The announcements of the log that a subscription of the peer asks for:
\* inside the window [since, until), matching the filter, and not authored
\* by the peer.
AskedFor(s, nid, sub) ==
    {ann \in Logged(s.gossip) :
        /\ sub.since <= ann.timestamp
        /\ ann.timestamp < sub.until
        /\ ann.kind = "Refs" => ann.rid \in sub.filter
        /\ ann.node # nid}

\* C28: a Subscribe received on a Connected session is recorded on the
\* session, and the outbox holds one Write to the subscriber for each
\* announcement of the gossip log that the subscription asks for, and
\* nothing else.
C28_SubscribeReplaysLog ==
    [][(/\ event'.op = "received_message"
        /\ event'.rid = "Subscribe"
        /\ SessionsIsConnected(service, event'.nid))
       => LET asked == AskedFor(service, event'.nid, event'.arg) IN
          /\ service'.sessions[event'.nid].subscribe = <<event'.arg>>
          /\ \A i \in 1..Len(service'.outbox) :
                /\ service'.outbox[i].type = "Write"
                /\ service'.outbox[i].nid = event'.nid
                /\ service'.outbox[i].msg \in asked
          /\ \A ann \in asked :
                Cardinality(WritesOf(service'.outbox, ann)) = 1]_vars

\* B subscribed to r2 from the later of the two times on, while the log
\* held the inventory and the refs of C and announcements of B, and was
\* sent the one announcement of C that is in the window and matches.
C28_Witness ==
    /\ event.op = "received_message"
    /\ event.rid = "Subscribe"
    /\ event.nid = "B"
    /\ event.arg.filter = FilterNew({"r2"})
    /\ event.arg.since = service.clock + 1
    /\ Cardinality({ann \in Logged(service.gossip) : ann.node = "C"}) = 2
    /\ \E ann \in Logged(service.gossip) : ann.node = "B"
    /\ Len(service.outbox) = 1
    /\ service.outbox[1].nid = "B"
    /\ service.outbox[1].msg.node = "C"
    /\ service.outbox[1].msg.kind = "Inventory"

(***************************************************************************)
(* Inventory synchronisation                                               *)
(***************************************************************************)

\* The events of a type a call emitted about a repository and a seed.
SeedEvents(s, type, rid, nid) ==
    {i \in 1..Len(s.events) :
        s.events[i] = [type |-> type, rid |-> rid, nid |-> nid]}

\* C31: after a fresh inventory announcement of an announcer is processed,
\* the repositories routed to the announcer are exactly the announced ones,
\* one SeedDiscovered was emitted per entry that was added and one
\* SeedDropped per entry that was removed, and the entries of the other
\* seeds are as before.
C31_InventoryReplacesRoutes ==
    [][(Handled("Inventory") /\ NewToLog(service, event'.arg)) =>
         LET ann == event'.arg
             before == RoutingResources(service.routing, ann.node)
             after == RoutingResources(service'.routing, ann.node)
             others(routing) == {k \in DOMAIN routing : k[2] # ann.node}
         IN /\ after = Range(ann.inventory)
            /\ \A rid \in Rids :
                  /\ Cardinality(SeedEvents(service', "SeedDiscovered", rid, ann.node))
                       = IF rid \in after \ before THEN 1 ELSE 0
                  /\ Cardinality(SeedEvents(service', "SeedDropped", rid, ann.node))
                       = IF rid \in before \ after THEN 1 ELSE 0
            /\ others(service'.routing) = others(service.routing)
            /\ \A k \in others(service.routing) :
                  service'.routing[k] = service.routing[k]]_vars

\* B, routed for r2 and r3, announced the inventory [r2]: the entry of r3
\* was dropped, the entry of r2 and the local node's entry of r1 stayed.
C31_Witness ==
    /\ event.op = "received_message"
    /\ event.rid = "Announcement"
    /\ event.arg.kind = "Inventory"
    /\ event.arg.inventory = <<"r2">>
    /\ SeedEvents(service, "SeedDropped", "r3", "B") # {}
    /\ RoutingResources(service.routing, "B") = {"r2"}
    /\ <<"r1", service.id>> \in DOMAIN service.routing

(***************************************************************************)
(* Results of fetches                                                      *)
(***************************************************************************)

\* The peers the outbox sends a refs announcement of the local node for the
\* repository.
RefsAnnouncedTo(s, rid) ==
    {s.outbox[i].nid :
       i \in {j \in 1..Len(s.outbox) :
                /\ s.outbox[j].type = "Write"
                /\ s.outbox[j].msg.type = "Announcement"
                /\ s.outbox[j].msg.kind = "Refs"
                /\ s.outbox[j].msg.node = s.id
                /\ s.outbox[j].msg.rid = rid}}

\* C32: on fetched(rid, peer, result), a user responder registered under
\* (rid, peer) receives the result and is removed from fetch_reqs, and no
\* refs announcement is broadcast; when none is registered, a refs
\* announcement of the repository goes to the connected sessions exactly
\* when the result is a success that updated refs.
C32_FetchedRepliesOrAnnounces ==
    [][event'.op = "fetched" =>
         LET key == <<event'.rid, event'.nid>>
             result == event'.arg
         IN IF key \in DOMAIN service.fetch_reqs
            THEN /\ service'.replies[service.fetch_reqs[key]]
                      = Append(service.replies[service.fetch_reqs[key]],
                               IF result.ok THEN "Success" ELSE "Failed")
                 /\ key \notin DOMAIN service'.fetch_reqs
                 /\ RefsAnnouncedTo(service', event'.rid) = {}
            ELSE RefsAnnouncedTo(service', event'.rid)
                   = IF result.ok /\ result.updated
                     THEN ConnectedPeers(service) ELSE {}]_vars

\* A fetch that no user asked for ended with updated refs and the refs were
\* announced to the connected peer.
C32_Witness ==
    /\ event.op = "fetched"
    /\ event.arg.ok /\ event.arg.updated
    /\ service.fetch_reqs = <<>>
    /\ RefsAnnouncedTo(service, event.rid) = {"B"}

\* A fetch a user asked for ended with updated refs: the responder has its
\* result and nothing was announced.
C32_WitnessResponder ==
    /\ event.op = "fetched"
    /\ event.arg.ok /\ event.arg.updated
    /\ issued = 1
    /\ service.replies[1] = <<"Success">>
    /\ SessionsIsConnected(service, "B")
    /\ RefsAnnouncedTo(service, event.rid) = {}

\* The events of a type a call emitted about a repository and a peer.
FetchEvents(s, type, rid, nid) ==
    {i \in 1..Len(s.events) :
        /\ s.events[i].type = type
        /\ s.events[i].rid = rid
        /\ s.events[i].nid = nid}

\* C33: every fetched(rid, peer, result) call emits a RefsFetched event for
\* (peer, rid), for successful and failed results alike, and enqueues a
\* Disconnect(peer, Fetch) intent if and only if the result is a timeout
\* error.
C33_FetchedEmitsRefsFetched ==
    [][event'.op = "fetched" =>
         /\ FetchEvents(service', "RefsFetched", event'.rid, event'.nid) # {}
         /\ DisconnectsOf(service'.outbox, event'.nid, "Fetch") # {}
              <=> (~event'.arg.ok /\ event'.arg.timeout)]_vars

(***************************************************************************)
(* Connection maintenance: a node without persistent peers whose address   *)
(* book knows more nodes than TARGET_OUTBOUND_PEERS, one of them dialled   *)
(* just before the start, and possibly the node itself. The idle task      *)
(* dials; the transport reports the dials in the order of the address      *)
(* book, and establishes and closes the connections of two of the nodes.   *)
(***************************************************************************)

\* The names of the nodes of the address book.
PeerNames == <<"N1", "N2", "N3", "N4", "N5", "N6", "N7", "N8", "N9", "N10">>

KnownPeers == {PeerNames[i] : i \in 1..MaxKnownPeers}

\* The nodes whose connections are established and closed.
ActivePeers == {PeerNames[1], PeerNames[MaxKnownPeers]}

InitMaintain ==
    /\ \E self \in BOOLEAN, recent \in {0, StartTime} :
         service = New(LocalId, Config("Block", {}, 1), StartTime, <<>>, {},
                       [n \in KnownPeers \cup (IF self THEN {LocalId} ELSE {}) |->
                          [timestamp |-> StartTime,
                           last_attempt |-> IF n = PeerNames[2] THEN recent ELSE 0,
                           last_success |-> 0]],
                       <<>>, {}, [timestamp |-> StartTime, seed |-> TRUE])
    /\ inflight = {}
    /\ issued = 0
    /\ ticks = MaxMaintainTicks
    /\ event = Event("new", Nil, Nil, Nil)
    /\ journal = [cap |-> 0, log |-> <<>>, routes |-> FALSE, seen |-> <<>>,
                  pings |-> FALSE, pinged |-> <<>>]
    /\ NoNetwork

\* The session of the node is the first, in the order of the names, that
\* waits for its dial.
FirstDialled(s, nid) ==
    \E i \in 1..MaxKnownPeers :
       /\ PeerNames[i] = nid
       /\ \A j \in 1..(i - 1) :
             PeerNames[j] \in DOMAIN s.sessions
               => s.sessions[PeerNames[j]].state # "Initial"

NextMaintain ==
    \/ InitializeEv
    \/ \E delta \in {IDLE_INTERVAL, MAX_RECONNECTION_DELTA} : TickEv(delta)
    \/ WakeEv(0)
    \/ \E nid \in KnownPeers : FirstDialled(service, nid) /\ AttemptedEv(nid)
    \/ \E nid \in ActivePeers : ConnectedEv(nid, "outbound")
    \/ \E nid \in ActivePeers : DisconnectedEv(nid)

SpecMaintain == InitMaintain /\ [][NextMaintain]_vars

\* The outbound sessions that are connected or connecting.
OutboundPeers(s) ==
    {n \in DOMAIN s.sessions :
        /\ s.sessions[n].link = "outbound"
        /\ (IsConnected(s.sessions[n]) \/ IsConnecting(s.sessions[n]))}

\* The nodes the outbox asks the transport to dial.
Dialled(outbox) ==
    {outbox[i].nid : i \in {j \in 1..Len(outbox) : outbox[j].type = "Connect"}}

\* A wake, of a node without persistent peers, dials at most
\* TARGET_OUTBOUND_PEERS minus the number of outbound sessions that are
\* connected or connecting, and only nodes of the address book that have no
\* session, are not the local node and were last dialled at least
\* MAX_RECONNECTION_DELTA ago.
WakeDialsWanted ==
    [][event'.op = "wake" =>
         /\ Cardinality(Dialled(service'.outbox))
              <= SaturatingSub(TARGET_OUTBOUND_PEERS,
                               Cardinality(OutboundPeers(service)))
         /\ \A n \in Dialled(service'.outbox) :
               /\ n \in DOMAIN service.addresses
               /\ n \notin DOMAIN service.sessions
               /\ n # service.id
               /\ SaturatingSub(service.clock, service.addresses[n].last_attempt)
                    >= MAX_RECONNECTION_DELTA]_vars

\* C34: the connection maintenance of the idle task dials at most the
\* missing number of outbound peers, only eligible nodes of the address
\* book, and so the automatic connections never raise the number of
\* outbound sessions that are connected or connecting above
\* TARGET_OUTBOUND_PEERS.
C34_OutboundPeersBounded ==
    WakeDialsWanted
      /\ [](Cardinality(OutboundPeers(service)) <= TARGET_OUTBOUND_PEERS)

(***************************************************************************)
(* Fetch slots                                                             *)
(***************************************************************************)

\* The (peer, repository) pairs that hold a slot of a session's in-progress
\* set.
Slots(s) ==
    UNION {{[nid |-> n, rid |-> r] : r \in s.sessions[n].fetching} :
             n \in DOMAIN s.sessions}

\* C35: whenever a call places a repository in the in-progress set of a
\* session, the same call enqueues a Fetch intent for that peer and
\* repository: no slot is taken without a fetch having been handed to the
\* worker pool, also when the namespaces cannot be computed.
C35_SlotTakenWithFetchIntent ==
    [][Slots(service') \ Slots(service) \subseteq FetchIntents(service'.outbox)]_vars

\* ---------------------------------------------------------------------
\* Messages after a session error
\* ---------------------------------------------------------------------

\* The previous call handled a message of the peer with a session error: it
\* left a Disconnect intent for that peer.
ErroredLastCall(nid) ==
    /\ event.op = "received_message"
    /\ event.nid = nid
    /\ \E i \in 1..Len(service.outbox) :
          /\ service.outbox[i].type = "Disconnect"
          /\ service.outbox[i].nid = nid

\* The peers an outbox writes announcements to.
AnnouncedTo(outbox) ==
    {outbox[i].nid :
       i \in {j \in 1..Len(outbox) :
                outbox[j].type = "Write" /\ outbox[j].msg.type = "Announcement"}}

\* C36: when handling a message of a peer produced a session error and a
\* Disconnect intent, the next message of that peer, arriving before the
\* transport reports the disconnection, changes neither the gossip log, the
\* routing table nor the address book, triggers no fetch and is not relayed.
C36_ErroredPeerIgnored ==
    [][(/\ event'.op = "received_message"
        /\ ErroredLastCall(event'.nid))
       => /\ service'.gossip = service.gossip
          /\ service'.routing = service.routing
          /\ service'.addresses = service.addresses
          /\ FetchIntents(service'.outbox) = {}
          /\ AnnouncedTo(service'.outbox) = {}]_vars

\* ---------------------------------------------------------------------
\* PeerConnected events
\* ---------------------------------------------------------------------

\* The peers the last call emitted a PeerConnected event for.
PeersConnected(s) ==
    {s.events[i].nid : i \in {j \in 1..Len(s.events) : s.events[j].type = "PeerConnected"}}

\* C37: at the end of a connected call, every peer a PeerConnected event was
\* emitted for has a session in state Connected, also when an inbound
\* connection arrives for a peer that has an outbound session not yet
\* connected, and when an outbound connection completes for a peer without
\* a session.
C37_PeerConnectedHasSession ==
    event.op = "connected" =>
        \A nid \in PeersConnected(service) : SessionsIsConnected(service, nid)

\* ---------------------------------------------------------------------
\* The reply to Command::Seeds
\* ---------------------------------------------------------------------

\* The repositories a Seeds command asks about.
SeedsRids == {"r1", "r2"}

\* C38: in the reply to Seeds(rid), read in any reachable state, every node
\* other than the local node that the routing table lists for rid is in
\* exactly one of the connected and the disconnected set, whatever the state
\* of its session; the local node is in neither, and a node is listed as
\* connected exactly when its session is in state Connected.
C38_SeedsPartitionRoutes ==
    \A rid \in SeedsRids :
        LET connected == ConnectedSeeds(service, rid)
            disconnected == DisconnectedSeeds(service, rid)
        IN /\ connected \cap disconnected = {}
           /\ connected \cup disconnected = RoutingGet(service.routing, rid) \ {service.id}
           /\ \A n \in connected \cup disconnected :
                 n \in connected <=> SessionsIsConnected(service, n)

\* ---------------------------------------------------------------------
\* SeedDiscovered events
\* ---------------------------------------------------------------------

\* The routing keys (rid, nid) of the SeedDiscovered events of a call.
SeedsDiscovered(s) ==
    {<<s.events[i].rid, s.events[i].nid>> :
        i \in {j \in 1..Len(s.events) : s.events[j].type = "SeedDiscovered"}}

\* C39: every SeedDiscovered{rid, nid} event of a call names a routing entry
\* (rid, nid) that the call inserted: nid is the announcing seed stored in the
\* routing table, also when the announcement arrived through a relaying peer
\* other than the announcer.
C39_SeedDiscoveredIsNewRoute ==
    [][SeedsDiscovered(service') \subseteq DOMAIN service'.routing \ DOMAIN service.routing]_vars

(***************************************************************************)
(* The clock: a node whose clock starts anywhere from zero, as the clock   *)
(* of a service that is handed a time by its runtime may. `now -           *)
(* SUBSCRIBE_BACKLOG_DELTA` is a plain subtraction of u64 values: a build  *)
(* with overflow checks panics when it underflows, a build without them    *)
(* wraps around.                                                           *)
(***************************************************************************)

\* The clocks the service is constructed with.
Clocks == {0, SUBSCRIBE_BACKLOG_DELTA - 1, SUBSCRIBE_BACKLOG_DELTA, StartTime}

InitClock ==
    /\ \E connect \in {{}, {"B"}}, clock \in Clocks :
         service = New(LocalId, Config("Block", connect, 1), clock, <<>>, {"r1"}, <<>>,
                       [r \in {"r1"} |-> [policy |-> "Track", scope |-> "All"]], {},
                       [timestamp |-> clock, seed |-> TRUE])
    /\ inflight = {}
    /\ issued = 0
    /\ ticks = MaxClockTicks
    /\ event = Event("new", Nil, Nil, Nil)
    /\ journal = [cap |-> 0, log |-> <<>>, routes |-> FALSE, seen |-> <<>>,
               pings |-> FALSE, pinged |-> <<>>]
    /\ NoNetwork

\* gossip::handshake, the subtraction `now - SUBSCRIBE_BACKLOG_DELTA`
\* underflows.
HandshakeUnderflows(s) == s.clock < SUBSCRIBE_BACKLOG_DELTA

\* Service::connected in a build with overflow checks, when the subtraction
\* of the handshake underflows: the call panics in Service::initial, after
\* PeerConnected was emitted, and the process ends.
ConnectedPanicEv(nid, link) ==
    /\ service.initialized
    /\ link = "outbound" =>
          /\ nid \in DOMAIN service.sessions
          /\ service.sessions[nid].state = "Attempted"
    /\ HandshakeUnderflows(service)
    /\ Call(Emit(Drained(service), [type |-> "PeerConnected", rid |-> Nil, nid |-> nid]),
            Event("panic", nid, Nil, link))
    /\ UNCHANGED <<issued, ticks, netvars>>

\* The process has not panicked.
Running == event.op # "panic"

NextClock ==
    \/ Running /\ InitializeEv
    \/ Running /\ \E delta \in {1, SUBSCRIBE_BACKLOG_DELTA} : TickEv(delta)
    \/ Running /\ \E nid \in Peers : AttemptedEv(nid)
    \/ Running /\ \E nid \in Peers, link \in {"inbound", "outbound"} : ConnectedEv(nid, link)
    \/ Running /\ \E nid \in Peers, link \in {"inbound", "outbound"} :
                     ConnectedPanicEv(nid, link)
    \/ Running /\ \E nid \in Peers : DisconnectedEv(nid)

SpecClock == InitClock /\ [][NextClock]_vars

\* The `since` bounds of the Subscribe messages an outbox writes.
SubscribedSince(outbox) ==
    {outbox[i].msg.since :
       i \in {j \in 1..Len(outbox) :
                outbox[j].type = "Write" /\ outbox[j].msg.type = "Subscribe"}}

\* C40: a connected call completes for every value of the clock, and the
\* `since` bound of the Subscribe message of its handshake is not after the
\* clock; it is the clock minus SUBSCRIBE_BACKLOG_DELTA when the clock is
\* at least the backlog delta.
C40_SubscribeSinceNotAfterNow ==
    event.op \in {"connected", "panic"} =>
        /\ event.op = "connected"
        /\ \A since \in SubscribedSince(service.outbox) :
              /\ since <= service.clock
              /\ service.clock >= SUBSCRIBE_BACKLOG_DELTA
                   => since = service.clock - SUBSCRIBE_BACKLOG_DELTA

====
